---- MODULE Spec2Model ----
(***************************************************************************)
(* Watcher runtime of the playlist synchronisation backend:                *)
(*   - the scheduler (app/watcher.rs): one spawned task per started        *)
(*     watcher, run-now, stop by JoinHandle::abort;                        *)
(*   - the sync engine (app/spotify/sync.rs): preview + journal rows;      *)
(*   - the journal and watcher tables (users/repository*.rs).              *)
(* Every action is one await-to-await step of the async code: the task is  *)
(* parked at an await between two actions, which is where other tasks run  *)
(* and where an abort takes effect.  Database statements are assumed to    *)
(* succeed (the `?` error paths of sqlx are not taken) and the Spotify     *)
(* environment variables read by sync_spotify_watcher to be set.  A task   *)
(* aborted while a statement is in flight is dropped with or without the   *)
(* statement applied (TaskDropped, or one last step through Continue).     *)
(*                                                                         *)
(* Specifications, over the same variables:                                *)
(*   Spec       the scheduler with run-now and the HTTP sync calls;        *)
(*   SpecTask   the periodic task alone, over a longer journal;            *)
(*   SpecCred   the credential store and the calls of the Spotify client;  *)
(*   SpecEntry  creation of watchers and start/stop of their tasks;        *)
(*   SpecAuth   the OAuth authorization flow;                              *)
(*   SpecStore  the statements on the user_credentials table;              *)
(*   SpecBoot   the periodic task across restarts of the process;          *)
(*   SpecJournal  the journal under tick, run-now and HTTP sync calls;     *)
(*   SpecPreview  previews beside the periodic task;                       *)
(*   SpecRequest  one preview request over a playlist of known tracks;     *)
(*   SpecBatch  one call that adds or removes tracks in batches;           *)
(*   SpecRepo  the sled user repository;                                   *)
(*   SpecCreateDelete  the user repository without update;                 *)
(*   SpecLive  the tasks spawned at boot under a fair scheduler, beside    *)
(*             the HTTP start and stop handlers;                           *)
(*   SpecCache  the track cache beside one add or remove call;             *)
(*   SpecRevoke  disconnecting beside refreshes in flight.                 *)
(***************************************************************************)
EXTENDS Integers, Sequences, FiniteSets, TLC

(* ------------------------------ bounds -------------------------------- *)
MaxProcs == 2       \* executions alive at once (tasks, run-now and HTTP calls)
MaxRows == 3        \* rows the sync_operations table may hold
MaxTracks == 2      \* items of a source playlist
MaxTaskRows == 7    \* rows of the journal when only the periodic task runs
NumCallers == 2     \* concurrent calls through the Spotify client
MaxRefreshes == 2   \* exchanges the token endpoint serves
MaxTime == 3        \* clock ticks
ExpiresIn == 2      \* lifetime of a refreshed token, in ticks
MaxFlows == 1       \* authorization flows started
MaxCallbacks == 2   \* calls of complete_auth_flow
OAuthStateTtl == 1  \* lifetime of an OAuthState (10 minutes), in ticks

WatcherIds == {1}
ProcIds == 1..MaxProcs
None == 0

(* --------------------------- program values --------------------------- *)
SourceServices == {"spotify", "youtube_music"}
TargetServices == {"youtube_music", "spotify"}
\* What the link-matching API answers for one playlist item; "episode" is an
\* item that is not PlayableItem::Track.
TrackKinds == {"match", "unmatched", "resolver_error", "episode"}

\* Option<T>: None is the empty set, Some(x) the singleton
NoneOpt == {}
Some(x) == {x}
Unwrap(o) == CHOOSE x \in o : TRUE

RECURSIVE SeqsUpTo(_)
SeqsUpTo(n) ==
    IF n = 0 THEN {<<>>}
    ELSE LET shorter == SeqsUpTo(n - 1)
         IN  shorter \cup {Append(s, k) : s \in {t \in shorter : Len(t) = n - 1},
                                          k \in TrackKinds}

Playlists == SeqsUpTo(MaxTracks)

VARIABLES
    watchers,           \* the watchers table: id -> row
    sync_operations,    \* the sync_operations table: row id = index
    running_watchers,   \* Watcher.running_watchers: id -> task handle
    procs,              \* the spawned tasks and the calls in progress
    source_playlist,    \* the items of the source playlist, upstream
    user_credentials,   \* the user_credentials row of (user, "spotify")
    now,                \* OffsetDateTime::now_utc(), in ticks
    upstream,           \* the token endpoint of the provider
    callers,            \* calls of get_authenticated_client_with_refresh
    oauth_states,       \* SpotifyAuthService.oauth_states of a service kept alive
    issued,             \* the authorization URLs handed out, by state value
    callbacks,          \* the calls of complete_auth_flow, in order
    credential_rows,    \* the user_credentials table, row by row
    store_result,       \* what the last call on the credential table returned
    playlist_requests,  \* playlist-changing requests received by the Web API
    batch,              \* the add/remove tracks call in progress
    preview_call,       \* a preview_sync call over identified tracks
    users_tree,         \* the sled tree "users": key bytes -> User
    username_index,     \* the sled tree "users_username_index": name -> bytes
    live_users,         \* the users create_user returned, not changed since
    repo_call,          \* the last call on the UserRepository
    upstream_playlist,  \* the playlist at Spotify: batches applied so far
    track_cache,        \* SpotifyPlaylistService.track_cache, one key
    fetches             \* the calls of get_playlist_tracks

watcherVars ==
    <<watchers, sync_operations, running_watchers, procs, source_playlist>>
credVars == <<user_credentials, now, upstream, callers>>
authVars == <<oauth_states, issued, callbacks>>
serviceVars ==
    <<credential_rows, store_result, playlist_requests, batch, preview_call>>
repoVars == <<users_tree, username_index, live_users, repo_call>>
cacheVars == <<upstream_playlist, track_cache, fetches>>
vars == <<watcherVars, credVars, authVars, serviceVars, repoVars, cacheVars>>

(* ------------------------- integer widths ----------------------------- *)

\* sync_frequency is an i32 column; the task's period is a u64 number of
\* seconds.  A u64 is written as its four 16-bit limbs, most significant
\* first, so that values above 2^31 can be computed with.
DefaultSyncFrequency == 300     \* request.sync_frequency.unwrap_or(300)
MinSyncFrequency == 300         \* std::cmp::max(.., 300), and the default
Limb == 2 ^ 16
I32Min == (-2147483647) - 1
I32Max == 2147483647

U64(n) == <<0, 0, n \div Limb, n % Limb>>     \* for 0 <= n < 2^31

\* `x as u64` for an i32 x: sign extension, i.e. x + 2^64 when x < 0
I32AsU64(x) ==
    IF x >= 0 THEN U64(x)
    ELSE LET low31 == (x + I32Max) + 1        \* x + 2^31, in 0 .. 2^31 - 1
         IN  <<Limb - 1, Limb - 1, (Limb \div 2) + (low31 \div Limb),
               low31 % Limb>>

\* a < b for two u64 values
U64Less(a, b) ==
    \E i \in 1..4 : /\ a[i] < b[i]
                    /\ \A j \in 1..(i - 1) : a[j] = b[j]

\* std::cmp::max on u64
U64Max(a, b) == IF U64Less(a, b) THEN b ELSE a

FreeProc ==
    [kind |-> "free", pc |-> "none", watcher |-> None, outer |-> None,
     inner |-> None, result |-> "none", added |-> 0, failed |-> 0,
     error |-> "none", status |-> "none", aborted |-> FALSE,
     interval |-> U64(0)]

(* ------------------------- sync engine (pure) ------------------------- *)

\* find_track_on_target_service: Some(..) only for a supported target
\* platform whose link the API returned; an API error is logged and turned
\* into Ok(None).
FindTrackOnTargetService(kind, target_service) ==
    IF target_service \notin {"youtube_music", "apple_music", "deezer",
                              "tidal", "amazon_music"}
    THEN "none"
    ELSE IF kind = "match" THEN "some" ELSE "none"

RECURSIVE CountAdd(_, _)
CountAdd(tracks, target_service) ==
    IF tracks = <<>> THEN 0
    ELSE (IF Head(tracks) # "episode"
             /\ FindTrackOnTargetService(Head(tracks), target_service) = "some"
          THEN 1 ELSE 0) + CountAdd(Tail(tracks), target_service)

RECURSIVE CountFailed(_, _)
CountFailed(tracks, target_service) ==
    IF tracks = <<>> THEN 0
    ELSE (IF Head(tracks) # "episode"
             /\ FindTrackOnTargetService(Head(tracks), target_service) = "none"
          THEN 1 ELSE 0) + CountFailed(Tail(tracks), target_service)

\* preview_sync: Err when the source playlist cannot be read, otherwise the
\* sizes of songs_to_add and songs_failed.
PreviewSync(readable, tracks, target_service) ==
    IF ~readable THEN [ok |-> FALSE, to_add |-> 0, failed |-> 0]
    ELSE [ok |-> TRUE,
          to_add |-> CountAdd(tracks, target_service),
          failed |-> CountFailed(tracks, target_service)]

\* sync_playlist_to_target, lines 137-173: the counts and the error message
\* derived from the preview.
SyncCounts(preview) ==
    IF preview.ok
    THEN [songs_added |-> preview.to_add,
          songs_failed |-> preview.failed,
          error |-> IF preview.failed # 0 THEN "match_failures" ELSE "none"]
    ELSE [songs_added |-> 0, songs_failed |-> -1, error |-> "source_error"]

\* a status rule that knows only "completed" and "failed"
FinalStatusAllOrNothing(error, songs_added, songs_failed) ==
    IF error = "none" /\ songs_failed = 0 THEN "completed" ELSE "failed"

\* sync_playlist_to_target, lines 176-182.
FinalStatus(error, songs_added, songs_failed) ==
    IF error = "none" /\ songs_failed = 0 THEN "completed"
    ELSE IF songs_added > 0 THEN "completed_with_errors"
    ELSE "failed"

(* ------------------------------ journal ------------------------------- *)

\* SyncRepository::create_sync_operation: INSERT ... 'pending'.
NewSyncOperation(watcher_id, operation_type) ==
    [watcher_id |-> watcher_id, operation_type |-> operation_type,
     status |-> "pending", songs_added |-> 0, songs_removed |-> 0,
     songs_failed |-> 0, error_message |-> "none", completed_at |-> FALSE]

\* SyncRepository::update_sync_operation: completed_at is written only for
\* the statuses "completed" and "failed".
UpdateSyncOperation(row, status, added, removed, failed, error) ==
    [row EXCEPT !.status = status, !.songs_added = added,
                !.songs_removed = removed, !.songs_failed = failed,
                !.error_message = error,
                !.completed_at = (status = "completed" \/ status = "failed")]

(* ------------------------------ helpers ------------------------------- *)

Users == {1, 2}
OwnerOf(w) == 1     \* watchers.user_id of the modelled watcher

Min(S) == CHOOSE x \in S : \A y \in S : x <= y

FreeProcs == {p \in ProcIds : procs[p].kind = "free"}

\* the pcs at which an execution is inside sync_watcher / sync_playlist_to_target
SyncPcs == {"sw_get", "sw_create", "sp_get", "sp_create", "sp_preview",
            "sp_update", "sp_last", "sw_update", "sw_last"}

\* journal rows an execution at this pc may still insert
RowsToInsert(pc) ==
    IF pc \in {"sw_get", "sw_create"} THEN 2
    ELSE IF pc \in {"sp_get", "sp_create"} THEN 1
    ELSE 0

RECURSIVE SumRows(_)
SumRows(S) ==
    IF S = {} THEN 0
    ELSE LET p == Min(S) IN RowsToInsert(procs[p].pc) + SumRows(S \ {p})

\* model bound: an execution starts only if the table can take its rows
RoomFor(n) == Len(sync_operations) + SumRows(ProcIds) + n <= MaxRows

\* the task's next state after an await: an aborted task is dropped at the
\* await it reaches, the others continue as `next`
Continue(p, next) ==
    procs' = [procs EXCEPT ![p] = IF procs[p].aborted THEN FreeProc ELSE next]

\* end of sync_watcher / sync_playlist_to_target: the periodic task goes
\* back to interval.tick(), a call returns
Finished(p) ==
    IF procs[p].kind = "tick"
    THEN [FreeProc EXCEPT !.kind = "tick", !.pc = "tick",
                          !.watcher = procs[p].watcher,
                          !.interval = procs[p].interval]
    ELSE FreeProc

\* WatcherRepository::get_watcher_by_id: the row, if the table holds it
HasWatcher(w) == w \in DOMAIN watchers

\* start_watcher_task, lines 73-82: the period of the task to spawn
TaskInterval(w) ==
    IF HasWatcher(w)
    THEN U64Max(I32AsU64(watchers[w].sync_frequency), U64(MinSyncFrequency))
    ELSE U64(MinSyncFrequency)

\* the task start_watcher_task spawns for watcher w
NewTask(w) ==
    [FreeProc EXCEPT !.kind = "tick", !.pc = "tick", !.watcher = w,
                     !.interval = TaskInterval(w)]

(* ----------------------- service calls at rest ------------------------ *)

\* no add/remove tracks call in progress
NoBatch ==
    [op |-> "none", track_ids |-> <<>>, valid |-> TRUE, sent |-> 0,
     pc |-> "idle", result |-> "none"]

\* no preview_sync call made
NoPreview ==
    [items |-> <<>>, target_service |-> "none", result |-> "none",
     songs_to_add |-> <<>>, songs_failed |-> <<>>]

\* an empty user_credentials table and no call on it, no request sent
ServiceIdle ==
    /\ credential_rows = <<>>
    /\ store_result = [op |-> "none", user_id |-> 0, service |-> "none",
                       result |-> "none"]
    /\ playlist_requests = <<>>
    /\ batch = NoBatch
    /\ preview_call = NoPreview

\* UserRepository::new on an empty database: both trees exist and are empty
RepoIdle ==
    /\ users_tree = <<>>
    /\ username_index = <<>>
    /\ live_users = {}
    /\ repo_call = [op |-> "none", result |-> "none"]

NumFetches == 2  \* calls of get_playlist_tracks

FetchIds == 1..NumFetches

\* no call of get_playlist_tracks yet
IdleFetch ==
    [pc |-> "idle", now |-> 0, tracks |-> 0, from_cache |-> FALSE,
     after |-> FALSE, result |-> "none"]

\* SpotifyPlaylistService::new: empty caches; the playlist as it is upstream
CacheIdle ==
    /\ upstream_playlist = 0
    /\ track_cache = NoneOpt
    /\ fetches = [f \in FetchIds |-> IdleFetch]

(* ------------------------------- Init --------------------------------- *)

\* Watcher::new runs start_monitoring: one task per active watcher, its
\* handle in running_watchers.  Watcher ids are used as the first task ids.
Init ==
    /\ watchers \in [WatcherIds -> [is_active : BOOLEAN,
                                    source_service : SourceServices,
                                    target_service : TargetServices,
                                    sync_frequency : {DefaultSyncFrequency},
                                    last_sync_at : {0}]]
    /\ sync_operations = <<>>
    /\ running_watchers = [w \in WatcherIds |->
                             IF watchers[w].is_active THEN w ELSE None]
    /\ procs = [p \in ProcIds |->
                  IF p \in WatcherIds /\ watchers[p].is_active
                  THEN NewTask(p)
                  ELSE FreeProc]
    /\ source_playlist \in Playlists
    /\ ServiceIdle
    /\ CacheIdle
    /\ RepoIdle
    /\ oauth_states = {}
    /\ issued = {}
    /\ callbacks = <<>>
    /\ user_credentials = [present |-> FALSE, access_token |-> <<"b64", 0>>,
                           refresh_token |-> {}, expires_at |-> {}]
    /\ now = 0
    /\ upstream = [calls |-> 0, next |-> 2]
    /\ callers = [c \in 1..NumCallers |->
                    [pc |-> "idle", seen |-> {}, rt |-> {},
                     resp |-> [present |-> FALSE, access_token |-> <<"b64", 0>>,
                               refresh_token |-> {}, expires_at |-> {}],
                     exchanged |-> FALSE, result |-> "none", token |-> {},
                     requests |-> 0, response |-> "none"]]

(* ----------------------------- scheduler ------------------------------ *)

\* Watcher::start_watcher_task: always spawns, then inserts the new handle
\* (HashMap::insert drops the previous JoinHandle, which detaches its task).
start_watcher_task(w) ==
    /\ FreeProcs # {}
    /\ LET p == Min(FreeProcs) IN
         /\ procs' = [procs EXCEPT ![p] = NewTask(w)]
         /\ running_watchers' = [running_watchers EXCEPT ![w] = p]
    /\ UNCHANGED <<watchers, sync_operations, source_playlist,
                 credVars, authVars, serviceVars, repoVars, cacheVars>>

\* Watcher::stop_watcher_task: remove the handle and abort() it; abort only
\* requests cancellation, the task is dropped at its next await.
stop_watcher_task(w) ==
    /\ running_watchers' = [running_watchers EXCEPT ![w] = None]
    /\ procs' = IF running_watchers[w] # None
                   /\ procs[running_watchers[w]].kind = "tick"
                THEN [procs EXCEPT ![running_watchers[w]].aborted = TRUE]
                ELSE procs
    /\ UNCHANGED <<watchers, sync_operations, source_playlist,
                 credVars, authVars, serviceVars, repoVars, cacheVars>>

\* the runtime drops an aborted task that is parked at an await
TaskDropped(p) ==
    /\ procs[p].kind # "free"
    /\ procs[p].aborted
    /\ procs' = [procs EXCEPT ![p] = FreeProc]
    /\ UNCHANGED <<watchers, sync_operations, running_watchers, source_playlist,
                 credVars, authVars, serviceVars, repoVars, cacheVars>>

\* the spawned loop: interval.tick().await returns, sync_watcher is called
TickReturns(p) ==
    /\ procs[p].kind = "tick"
    /\ procs[p].pc = "tick"
    /\ Continue(p, [procs[p] EXCEPT !.pc = "sw_get"])
    /\ UNCHANGED <<watchers, sync_operations, running_watchers, source_playlist,
                 credVars, authVars, serviceVars, repoVars, cacheVars>>

\* a tick of the task, while the journal has room for the rows of a run
IntervalTick(p) ==
    /\ RoomFor(2)
    /\ TickReturns(p)

\* Watcher::sync_watcher_now: sync_watcher run by the caller
sync_watcher_now(w) ==
    /\ FreeProcs # {}
    /\ RoomFor(2)
    /\ procs' = [procs EXCEPT ![Min(FreeProcs)] =
                   [FreeProc EXCEPT !.kind = "now", !.pc = "sw_get",
                                    !.watcher = w]]
    /\ UNCHANGED <<watchers, sync_operations, running_watchers, source_playlist,
                 credVars, authVars, serviceVars, repoVars, cacheVars>>

\* api/spotify.rs sync_execute: ownership check, then sync_playlist_to_target
sync_execute(user, w) ==
    /\ OwnerOf(w) = user
    /\ FreeProcs # {}
    /\ RoomFor(1)
    /\ procs' = [procs EXCEPT ![Min(FreeProcs)] =
                   [FreeProc EXCEPT !.kind = "http", !.pc = "sp_get",
                                    !.watcher = w]]
    /\ UNCHANGED <<watchers, sync_operations, running_watchers, source_playlist,
                 credVars, authVars, serviceVars, repoVars, cacheVars>>

\* api/protected.rs start_watcher / stop_watcher: only the is_active column
update_watcher_status(w, is_active) ==
    /\ watchers[w].is_active # is_active
    /\ watchers' = [watchers EXCEPT ![w].is_active = is_active]
    /\ UNCHANGED <<sync_operations, running_watchers, procs, source_playlist,
                 credVars, authVars, serviceVars, repoVars, cacheVars>>

(* -------------------- sync_watcher (app/watcher.rs) -------------------- *)

\* sync_watcher, lines 118-130: load the watcher, return Ok(()) if there is
\* no such row or if it is inactive
SwGetWatcher(p) ==
    /\ procs[p].kind \in {"tick", "now"}
    /\ procs[p].pc = "sw_get"
    /\ Continue(p, IF HasWatcher(procs[p].watcher)
                      /\ watchers[procs[p].watcher].is_active
                   THEN [procs[p] EXCEPT !.pc = "sw_create"]
                   ELSE Finished(p))
    /\ UNCHANGED <<watchers, sync_operations, running_watchers, source_playlist,
                 credVars, authVars, serviceVars, repoVars, cacheVars>>

\* sync_watcher, lines 133-143: insert the "auto_sync" row, then dispatch on
\* the source service (an unsupported one is an Err result)
SwCreateSyncOperation(p) ==
    /\ procs[p].kind \in {"tick", "now"}
    /\ procs[p].pc = "sw_create"
    /\ sync_operations' = Append(sync_operations,
                                 NewSyncOperation(procs[p].watcher, "auto_sync"))
    /\ Continue(p, IF watchers[procs[p].watcher].source_service = "spotify"
                   THEN [procs[p] EXCEPT !.outer = Len(sync_operations) + 1,
                                         !.pc = "sp_get"]
                   ELSE [procs[p] EXCEPT !.outer = Len(sync_operations) + 1,
                                         !.result = "err",
                                         !.pc = "sw_update"])
    /\ UNCHANGED <<watchers, running_watchers, source_playlist,
                 credVars, authVars, serviceVars, repoVars, cacheVars>>

\* the same write with UPDATE .. WHERE watcher_id = ? for WHERE id = ?
SwUpdateRowsOfWatcher(p) ==
    /\ procs[p].kind \in {"tick", "now"}
    /\ procs[p].pc = "sw_update"
    /\ sync_operations' =
         [i \in DOMAIN sync_operations |->
            IF sync_operations[i].watcher_id # procs[p].watcher
            THEN sync_operations[i]
            ELSE IF procs[p].result = "ok"
            THEN UpdateSyncOperation(sync_operations[i], "completed",
                                     procs[p].added, 0, procs[p].failed, "none")
            ELSE UpdateSyncOperation(sync_operations[i], "failed", 0, 0, 0,
                                     "sync_error")]
    /\ Continue(p, IF procs[p].result = "ok"
                   THEN [procs[p] EXCEPT !.pc = "sw_last"]
                   ELSE Finished(p))
    /\ UNCHANGED <<watchers, running_watchers, source_playlist,
                 credVars, authVars, serviceVars, repoVars, cacheVars>>

\* sync_watcher, lines 146-183: write the outcome to the "auto_sync" row;
\* an Ok result is always recorded as "completed"
SwUpdateSyncOperation(p) ==
    /\ procs[p].kind \in {"tick", "now"}
    /\ procs[p].pc = "sw_update"
    /\ sync_operations' =
         [sync_operations EXCEPT ![procs[p].outer] =
            IF procs[p].result = "ok"
            THEN UpdateSyncOperation(@, "completed", procs[p].added, 0,
                                     procs[p].failed, "none")
            ELSE UpdateSyncOperation(@, "failed", 0, 0, 0, "sync_error")]
    /\ Continue(p, IF procs[p].result = "ok"
                   THEN [procs[p] EXCEPT !.pc = "sw_last"]
                   ELSE Finished(p))
    /\ UNCHANGED <<watchers, running_watchers, source_playlist,
                 credVars, authVars, serviceVars, repoVars, cacheVars>>

\* sync_watcher, line 158: WatcherRepository::update_last_sync
SwUpdateLastSync(p) ==
    /\ procs[p].kind \in {"tick", "now"}
    /\ procs[p].pc = "sw_last"
    /\ watchers' = [watchers EXCEPT ![procs[p].watcher].last_sync_at = @ + 1]
    /\ Continue(p, Finished(p))
    /\ UNCHANGED <<sync_operations, running_watchers, source_playlist,
                 credVars, authVars, serviceVars, repoVars, cacheVars>>

(* ----------- sync_playlist_to_target (app/spotify/sync.rs) ------------- *)

\* lines 125-129: load the watcher
SpGetWatcher(p) ==
    /\ procs[p].kind # "free"
    /\ procs[p].pc = "sp_get"
    /\ Continue(p, [procs[p] EXCEPT !.pc = "sp_create"])
    /\ UNCHANGED <<watchers, sync_operations, running_watchers, source_playlist,
                 credVars, authVars, serviceVars, repoVars, cacheVars>>

\* lines 132-135: insert the "spotify_sync" row
SpCreateSyncOperation(p) ==
    /\ procs[p].kind # "free"
    /\ procs[p].pc = "sp_create"
    /\ sync_operations' = Append(sync_operations,
                                 NewSyncOperation(procs[p].watcher, "spotify_sync"))
    /\ Continue(p, [procs[p] EXCEPT !.inner = Len(sync_operations) + 1,
                                    !.pc = "sp_preview"])
    /\ UNCHANGED <<watchers, running_watchers, source_playlist,
                 credVars, authVars, serviceVars, repoVars, cacheVars>>

\* lines 137-182: run preview_sync and derive counts, message and status
SpPreviewSync(p, readable) ==
    /\ procs[p].kind # "free"
    /\ procs[p].pc = "sp_preview"
    /\ LET preview == PreviewSync(readable, source_playlist,
                                  watchers[procs[p].watcher].target_service)
           counts == SyncCounts(preview)
       IN  Continue(p, [procs[p] EXCEPT
                          !.added = counts.songs_added,
                          !.failed = counts.songs_failed,
                          !.error = counts.error,
                          !.status = FinalStatus(counts.error, counts.songs_added,
                                                 counts.songs_failed),
                          !.pc = "sp_update"])
    /\ UNCHANGED <<watchers, sync_operations, running_watchers, source_playlist,
                 credVars, authVars, serviceVars, repoVars, cacheVars>>

\* lines 184-194: write the outcome to the "spotify_sync" row
SpUpdateSyncOperation(p) ==
    /\ procs[p].kind # "free"
    /\ procs[p].pc = "sp_update"
    /\ sync_operations' =
         [sync_operations EXCEPT ![procs[p].inner] =
            UpdateSyncOperation(@, procs[p].status, procs[p].added, 0,
                                procs[p].failed, procs[p].error)]
    /\ Continue(p, [procs[p] EXCEPT !.pc = "sp_last"])
    /\ UNCHANGED <<watchers, running_watchers, source_playlist,
                 credVars, authVars, serviceVars, repoVars, cacheVars>>

\* lines 214-231: update_last_sync whatever the status, then return Ok(..):
\* the HTTP call ends, sync_spotify_watcher hands the counts to sync_watcher
SpUpdateLastSync(p) ==
    /\ procs[p].kind # "free"
    /\ procs[p].pc = "sp_last"
    /\ watchers' = [watchers EXCEPT ![procs[p].watcher].last_sync_at = @ + 1]
    /\ Continue(p, IF procs[p].kind = "http"
                   THEN Finished(p)
                   ELSE [procs[p] EXCEPT !.result = "ok", !.pc = "sw_update"])
    /\ UNCHANGED <<sync_operations, running_watchers, source_playlist,
                 credVars, authVars, serviceVars, repoVars, cacheVars>>

(* ------------------------------- Next --------------------------------- *)

Next ==
    \/ \E w \in WatcherIds : start_watcher_task(w)
    \/ \E w \in WatcherIds : stop_watcher_task(w)
    \/ \E p \in ProcIds : TaskDropped(p)
    \/ \E p \in ProcIds : IntervalTick(p)
    \/ \E w \in WatcherIds : sync_watcher_now(w)
    \/ \E u \in Users, w \in WatcherIds : sync_execute(u, w)
    \/ \E w \in WatcherIds, b \in BOOLEAN : update_watcher_status(w, b)
    \/ \E p \in ProcIds : SwGetWatcher(p)
    \/ \E p \in ProcIds : SwCreateSyncOperation(p)
    \/ \E p \in ProcIds : SwUpdateSyncOperation(p)
    \/ \E p \in ProcIds : SwUpdateLastSync(p)
    \/ \E p \in ProcIds : SpGetWatcher(p)
    \/ \E p \in ProcIds : SpCreateSyncOperation(p)
    \/ \E p \in ProcIds, readable \in BOOLEAN : SpPreviewSync(p, readable)
    \/ \E p \in ProcIds : SpUpdateSyncOperation(p)
    \/ \E p \in ProcIds : SpUpdateLastSync(p)

Spec == Init /\ [][Next]_vars

(* ----------------- the periodic task left to itself ------------------- *)

\* a tick of the task when nobody calls the scheduler or the HTTP API: the
\* runs of the task follow one another and the journal may grow longer
UnattendedTick(p) ==
    /\ Len(sync_operations) + 2 <= MaxTaskRows
    /\ TickReturns(p)

NextTask ==
    \/ \E p \in ProcIds : UnattendedTick(p)
    \/ \E p \in ProcIds : SwGetWatcher(p)
    \/ \E p \in ProcIds : SwCreateSyncOperation(p)
    \/ \E p \in ProcIds : SwUpdateSyncOperation(p)
    \/ \E p \in ProcIds : SwUpdateLastSync(p)
    \/ \E p \in ProcIds : SpGetWatcher(p)
    \/ \E p \in ProcIds : SpCreateSyncOperation(p)
    \/ \E p \in ProcIds, readable \in BOOLEAN : SpPreviewSync(p, readable)
    \/ \E p \in ProcIds : SpUpdateSyncOperation(p)
    \/ \E p \in ProcIds : SpUpdateLastSync(p)

SpecTask == Init /\ [][NextTask]_vars

(* ================= credential store (app/spotify) ===================== *)

CallerIds == 1..NumCallers

\* the "encryption" of stored tokens is BASE64.encode / BASE64.decode
Encrypt(token) == <<"b64", token>>
Decrypt(stored) == stored[2]

NoCredential ==
    [present |-> FALSE, access_token |-> Encrypt(0),
     refresh_token |-> NoneOpt, expires_at |-> NoneOpt]

IdleCaller ==
    [pc |-> "idle", seen |-> NoneOpt, rt |-> NoneOpt, resp |-> NoCredential,
     exchanged |-> FALSE, result |-> "none", token |-> NoneOpt,
     requests |-> 0, response |-> "none"]

\* a check that still accepts the token at the instant it expires
valid_until_expiry(credential, t) ==
    IF credential.present
    THEN IF credential.expires_at # NoneOpt
         THEN t <= Unwrap(credential.expires_at)
         ELSE TRUE
    ELSE FALSE

\* SpotifyAuthService::has_valid_credentials
has_valid_credentials(credential, t) ==
    IF credential.present
    THEN IF credential.expires_at # NoneOpt
         THEN t < Unwrap(credential.expires_at)
         ELSE TRUE
    ELSE FALSE

\* SpotifyAuthService::get_access_token: the error, or "ok"
get_access_token(credential, t) ==
    IF ~credential.present THEN "AuthenticationFailed"
    ELSE IF credential.expires_at # NoneOpt /\ t >= Unwrap(credential.expires_at)
    THEN "TokenExpired"
    ELSE "ok"

\* a method of SpotifyClient is called (get_current_user, get_playlist_tracks,
\* ..): it enters get_authenticated_client_with_refresh
BeginCall(c) ==
    /\ callers[c].pc = "idle"
    /\ callers' = [callers EXCEPT ![c] = [IdleCaller EXCEPT !.pc = "check"]]
    /\ UNCHANGED <<user_credentials, now, upstream, watcherVars, authVars, serviceVars, repoVars, cacheVars>>

\* api/spotify.rs auth_status: is_authenticated (has_valid_credentials)
\* first; Ok(false) is answered at once, Ok(true) goes on to get_current_user
auth_status(c) ==
    /\ callers[c].pc = "idle"
    /\ callers' = [callers EXCEPT ![c] =
         IF has_valid_credentials(user_credentials, now)
         THEN [IdleCaller EXCEPT !.pc = "check"]
         ELSE [IdleCaller EXCEPT !.response = "unauthenticated"]]
    /\ UNCHANGED <<user_credentials, now, upstream, watcherVars, authVars, serviceVars, repoVars, cacheVars>>

\* client.rs line 80: refresh only if the stored credential is not valid;
\* `seen` keeps the stored access token the caller found expired
CheckCredentials(c) ==
    /\ callers[c].pc = "check"
    /\ callers' = [callers EXCEPT ![c] =
         IF has_valid_credentials(user_credentials, now)
         THEN [@ EXCEPT !.pc = "get_token"]
         ELSE [@ EXCEPT !.pc = "refresh_read",
                        !.seen = IF user_credentials.present
                                 THEN Some(user_credentials.access_token)
                                 ELSE NoneOpt]]
    /\ UNCHANGED <<user_credentials, now, upstream, watcherVars, authVars, serviceVars, repoVars, cacheVars>>

\* refresh_tokens, lines 197-212: load the credential and its refresh token
RefreshRead(c) ==
    /\ callers[c].pc = "refresh_read"
    /\ callers' = [callers EXCEPT ![c] =
         IF ~user_credentials.present
         THEN [@ EXCEPT !.pc = "idle", !.result = "AuthenticationFailed"]
         ELSE IF user_credentials.refresh_token = NoneOpt
         THEN [@ EXCEPT !.pc = "idle", !.result = "TokenExpired"]
         ELSE [@ EXCEPT !.pc = "exchange",
                        !.rt = Some(Decrypt(Unwrap(user_credentials.refresh_token)))]]
    /\ UNCHANGED <<user_credentials, now, upstream, watcherVars, authVars, serviceVars, repoVars, cacheVars>>

\* refresh_tokens, lines 243-266: one exchange with the token endpoint; the
\* endpoint may refuse, and may or may not hand out a new refresh token
RefreshExchange(c, accepted, rotated) ==
    /\ callers[c].pc = "exchange"
    /\ upstream.calls < MaxRefreshes
    /\ upstream' = [calls |-> upstream.calls + 1,
                    next |-> IF accepted THEN upstream.next + 1 ELSE upstream.next]
    /\ callers' = [callers EXCEPT ![c] =
         IF accepted
         THEN [@ EXCEPT !.pc = "update", !.exchanged = TRUE,
                        !.resp = [present |-> TRUE,
                                  access_token |-> Encrypt(upstream.next),
                                  refresh_token |-> IF rotated
                                                    THEN Some(Encrypt(upstream.next))
                                                    ELSE NoneOpt,
                                  expires_at |-> Some(now + ExpiresIn)]]
         ELSE [@ EXCEPT !.pc = "idle", !.exchanged = TRUE,
                        !.result = "AuthenticationFailed"]]
    /\ UNCHANGED <<user_credentials, now, watcherVars, authVars, serviceVars, repoVars, cacheVars>>

\* a write of refresh_tokens that inserts the row when there is none
UpsertCredentials(c) ==
    /\ callers[c].pc = "update"
    /\ user_credentials' = callers[c].resp
    /\ callers' = [callers EXCEPT ![c].pc = "get_token"]
    /\ UNCHANGED <<now, upstream, watcherVars, authVars, serviceVars,
                   repoVars, cacheVars>>

\* refresh_tokens, lines 269-278: UPDATE user_credentials SET ... WHERE
\* user_id = ? AND service = ? (no row, no effect)
UpdateCredentials(c) ==
    /\ callers[c].pc = "update"
    /\ user_credentials' = IF user_credentials.present
                           THEN callers[c].resp
                           ELSE user_credentials
    /\ callers' = [callers EXCEPT ![c].pc = "get_token"]
    /\ UNCHANGED <<now, upstream, watcherVars, authVars, serviceVars, repoVars, cacheVars>>

\* client.rs line 86 with get_authenticated_client: read the access token
GetAccessToken(c) ==
    /\ callers[c].pc = "get_token"
    /\ callers' = [callers EXCEPT ![c] =
         LET outcome == get_access_token(user_credentials, now) IN
         [@ EXCEPT !.pc = IF outcome = "ok" THEN "request" ELSE "idle",
                   !.result = outcome,
                   !.token = IF outcome = "ok"
                             THEN Some(Decrypt(user_credentials.access_token))
                             ELSE NoneOpt]]
    /\ UNCHANGED <<user_credentials, now, upstream, watcherVars, authVars, serviceVars, repoVars, cacheVars>>

\* the method's request to the Web API with the token just read, e.g.
\* get_current_user lines 106-109: an upstream rejection of the token is
\* mapped to ApiError and returned
ApiRequest(c, rejected) ==
    /\ callers[c].pc = "request"
    /\ callers' = [callers EXCEPT ![c] =
         [@ EXCEPT !.pc = "idle",
                   !.requests = @ + 1,
                   !.response = IF rejected THEN "ApiError" ELSE "ok"]]
    /\ UNCHANGED <<user_credentials, now, upstream, watcherVars, authVars, serviceVars, repoVars, cacheVars>>

\* the wall clock advances
AdvanceTime ==
    /\ now < MaxTime
    /\ now' = now + 1
    /\ UNCHANGED <<user_credentials, upstream, callers, watcherVars, authVars, serviceVars, repoVars, cacheVars>>

\* the scheduler at rest, for the specification of the credential store
WatcherInit ==
    /\ watchers = [w \in WatcherIds |->
                     [is_active |-> FALSE, source_service |-> "spotify",
                      target_service |-> "youtube_music", last_sync_at |-> 0]]
    /\ sync_operations = <<>>
    /\ running_watchers = [w \in WatcherIds |-> None]
    /\ procs = [p \in ProcIds |-> FreeProc]
    /\ source_playlist = <<>>

\* no authorization flow started
AuthInit ==
    /\ oauth_states = {}
    /\ issued = {}
    /\ callbacks = <<>>

\* a linked or unlinked account, with or without refresh token and expiry
InitCred ==
    /\ WatcherInit
    /\ AuthInit
    /\ ServiceIdle
    /\ CacheIdle
    /\ RepoIdle
    /\ user_credentials \in
         {NoCredential} \cup
         [present : {TRUE}, access_token : {Encrypt(1)},
          refresh_token : {NoneOpt, Some(Encrypt(1))},
          expires_at : {NoneOpt, Some(1)}]
    /\ now = 0
    /\ upstream = [calls |-> 0, next |-> 2]
    /\ callers = [c \in CallerIds |-> IdleCaller]

NextCred ==
    \/ \E c \in CallerIds : BeginCall(c)
    \/ \E c \in CallerIds : auth_status(c)
    \/ \E c \in CallerIds : CheckCredentials(c)
    \/ \E c \in CallerIds : RefreshRead(c)
    \/ \E c \in CallerIds, accepted \in BOOLEAN, rotated \in BOOLEAN :
           RefreshExchange(c, accepted, rotated)
    \/ \E c \in CallerIds : UpdateCredentials(c)
    \/ \E c \in CallerIds : GetAccessToken(c)
    \/ \E c \in CallerIds, rejected \in BOOLEAN : ApiRequest(c, rejected)
    \/ AdvanceTime

SpecCred == InitCred /\ [][NextCred]_vars

(* ================== creating and starting watchers ==================== *)

\* the credential store at rest
CredIdle ==
    /\ user_credentials = NoCredential
    /\ now = 0
    /\ upstream = [calls |-> 0, next |-> 2]
    /\ callers = [c \in CallerIds |-> IdleCaller]

\* CreateWatcherRequest.sync_frequency: Option<i32>, as deserialized from
\* the request body (no validation)
RequestFrequencies ==
    {NoneOpt} \cup {Some(f) : f \in {I32Min, -1, 0, 1, 299, 300, 301, I32Max}}

CreateWatcherRequests ==
    [source_service : SourceServices, target_service : TargetServices,
     sync_frequency : RequestFrequencies]

\* post::create_watcher with WatcherRepository::create_watcher: INSERT the
\* row with request.sync_frequency.unwrap_or(300); is_active takes the
\* column default.  Ids are the autoincrement ids of WatcherIds.
create_watcher(request) ==
    /\ Len(watchers) + 1 \in WatcherIds
    /\ watchers' = Append(watchers,
         [is_active |-> TRUE,
          source_service |-> request.source_service,
          target_service |-> request.target_service,
          sync_frequency |-> IF request.sync_frequency = NoneOpt
                             THEN DefaultSyncFrequency
                             ELSE Unwrap(request.sync_frequency),
          last_sync_at |-> 0])
    /\ UNCHANGED <<sync_operations, running_watchers, procs, source_playlist,
                   credVars, authVars, serviceVars, repoVars, cacheVars>>

\* Watcher::new on an empty watchers table
InitEntry ==
    /\ watchers = <<>>
    /\ sync_operations = <<>>
    /\ running_watchers = [w \in WatcherIds |-> None]
    /\ procs = [p \in ProcIds |-> FreeProc]
    /\ source_playlist = <<>>
    /\ CredIdle
    /\ AuthInit
    /\ ServiceIdle
    /\ CacheIdle
    /\ RepoIdle

NextEntry ==
    \/ \E request \in CreateWatcherRequests : create_watcher(request)
    \/ \E w \in WatcherIds : start_watcher_task(w)
    \/ \E w \in WatcherIds : stop_watcher_task(w)
    \/ \E p \in ProcIds : TaskDropped(p)

SpecEntry == InitEntry /\ [][NextEntry]_vars

(* ================= OAuth flow (app/spotify/auth.rs) =================== *)

\* A SpotifyAuthService owns its oauth_states map.  The HTTP handlers build
\* a new service for every request; `oauth_states` is the map of a service
\* that its owner keeps across calls (the service used as a library).  The
\* flows are those of the user whose credential row is user_credentials,
\* and the requests are made in that user's session.
HeldService == <<"held", 0>>

\* SpotifyAuthService::new: oauth_states: HashMap::new()
NewOAuthStates == {}

\* Uuid::new_v4(): a value no flow has used
FreshState == Cardinality(issued) + 1

\* what a request can carry as its state parameter: a value taken from an
\* authorization URL, or 0, a value that no URL carried
StateValues == {0} \cup {i.state : i \in issued}

\* start_auth_flow, lines 62-73: HashMap::insert of the new OAuthState
InsertOAuthState(states, state, t) ==
    {s \in states : s.state # state}
        \cup {[state |-> state, expires_at |-> t + OAuthStateTtl]}

\* a lookup that leaves the entry in the map (HashMap::get for ::remove)
KeepOAuthState(states, state) == states

\* complete_auth_flow, lines 115-118: HashMap::remove
RemoveOAuthState(states, state) == {s \in states : s.state # state}

\* complete_auth_flow, lines 115-123: the removed entry must exist and
\* must not have expired
ValidateOAuthState(states, state, t) ==
    LET found == {s \in states : s.state = state} IN
    IF found = NoneOpt THEN "InvalidOAuthState"
    ELSE IF t > Unwrap(found).expires_at THEN "InvalidOAuthState"
    ELSE "ok"

\* the call of complete_auth_flow up to its first await (request_token)
BeginCallback(service, states, state) ==
    LET outcome == ValidateOAuthState(states, state, now) IN
    [service |-> service, state |-> state, at |-> now,
     pc |-> IF outcome = "ok" THEN "exchange" ELSE "done",
     result |-> IF outcome = "ok" THEN "pending" ELSE outcome,
     token |-> NoneOpt, refresh_token |-> NoneOpt, stored |-> FALSE]

\* start_auth_flow on the kept service
start_auth_flow ==
    /\ Cardinality(issued) < MaxFlows
    /\ oauth_states' = InsertOAuthState(oauth_states, FreshState, now)
    /\ issued' = issued \cup {[state |-> FreshState, service |-> HeldService,
                                expires_at |-> now + OAuthStateTtl]}
    /\ UNCHANGED <<callbacks, credVars, watcherVars, serviceVars, repoVars, cacheVars>>

\* api/spotify.rs auth_start: a new service, start_auth_flow on it, the URL
\* with the state value is returned and the service is dropped
auth_start ==
    /\ Cardinality(issued) < MaxFlows
    /\ LET service == InsertOAuthState(NewOAuthStates, FreshState, now) IN
         issued' = issued \cup
             {[state |-> s.state, service |-> <<"auth_start", FreshState>>,
               expires_at |-> s.expires_at] : s \in service}
    /\ UNCHANGED <<oauth_states, callbacks, credVars, watcherVars, serviceVars, repoVars, cacheVars>>

\* complete_auth_flow on the kept service, up to request_token
complete_auth_flow(state) ==
    /\ Len(callbacks) < MaxCallbacks
    /\ callbacks' = Append(callbacks,
                           BeginCallback(HeldService, oauth_states, state))
    /\ oauth_states' = RemoveOAuthState(oauth_states, state)
    /\ UNCHANGED <<issued, credVars, watcherVars, serviceVars, repoVars, cacheVars>>

\* api/spotify.rs auth_callback (code and state present): a new service,
\* complete_auth_flow on it
auth_callback(state) ==
    /\ Len(callbacks) < MaxCallbacks
    /\ callbacks' = Append(callbacks,
                           BeginCallback(<<"auth_callback", Len(callbacks) + 1>>,
                                         NewOAuthStates, state))
    /\ UNCHANGED <<oauth_states, issued, credVars, watcherVars, serviceVars, repoVars, cacheVars>>

\* complete_auth_flow, lines 151-165: request_token; the provider accepts
\* the code or not, and may or may not hand out a refresh token
RequestToken(k, accepted, with_refresh) ==
    /\ callbacks[k].pc = "exchange"
    /\ upstream' = [calls |-> upstream.calls + 1,
                    next |-> IF accepted THEN upstream.next + 1 ELSE upstream.next]
    /\ callbacks' = [callbacks EXCEPT ![k] =
         IF accepted
         THEN [@ EXCEPT !.pc = "store",
                        !.token = Some(upstream.next),
                        !.refresh_token = IF with_refresh
                                          THEN Some(upstream.next)
                                          ELSE NoneOpt]
         ELSE [@ EXCEPT !.pc = "done", !.result = "AuthenticationFailed"]]
    /\ UNCHANGED <<user_credentials, now, callers, oauth_states, issued,
                   watcherVars, serviceVars, repoVars, cacheVars>>

\* complete_auth_flow, lines 168-191: store_credentials (INSERT .. ON
\* CONFLICT DO UPDATE) with the encoded tokens
StoreCredentials(k) ==
    /\ callbacks[k].pc = "store"
    /\ user_credentials' =
         [present |-> TRUE,
          access_token |-> Encrypt(Unwrap(callbacks[k].token)),
          refresh_token |-> {Encrypt(t) : t \in callbacks[k].refresh_token},
          expires_at |-> Some(now + ExpiresIn)]
    /\ callbacks' = [callbacks EXCEPT ![k] =
         [@ EXCEPT !.pc = "done", !.result = "ok", !.stored = TRUE]]
    /\ UNCHANGED <<now, upstream, callers, oauth_states, issued, watcherVars, serviceVars, repoVars, cacheVars>>

InitAuth ==
    /\ WatcherInit
    /\ CredIdle
    /\ AuthInit
    /\ ServiceIdle
    /\ CacheIdle
    /\ RepoIdle

NextAuth ==
    \/ start_auth_flow
    \/ auth_start
    \/ \E state \in StateValues : complete_auth_flow(state)
    \/ \E state \in StateValues : auth_callback(state)
    \/ \E k \in DOMAIN callbacks, accepted \in BOOLEAN, with_refresh \in BOOLEAN :
           RequestToken(k, accepted, with_refresh)
    \/ \E k \in DOMAIN callbacks : StoreCredentials(k)
    \/ AdvanceTime

SpecAuth == InitAuth /\ [][NextAuth]_vars

(* ========= the user_credentials table (app/spotify/auth.rs) =========== *)

\* The table as the database holds it, in insertion order, with the columns
\* the queries read or write (id, token_scope, created_at and updated_at are
\* left out).  Every function below is one SQL statement.

MaxExpiry == 2      \* the latest instant a stored token expires at

\* the services for which rows are kept
CredentialServices == {"spotify", "youtube_music"}

\* the service names a request path may carry
RequestedServices == CredentialServices \cup {"apple_music"}

\* token values the provider hands out
Tokens == {1, 2}

\* what the provider's token carries: the access token with or without a
\* refresh token, both encoded by the caller
TokenPairs ==
    UNION {{[access_token |-> Encrypt(t), refresh_token |-> NoneOpt],
            [access_token |-> Encrypt(t), refresh_token |-> Some(Encrypt(t))]} :
           t \in Tokens}

\* Option<OffsetDateTime> arguments: none, or an instant past or to come
Expiries == {NoneOpt} \cup {Some(t) : t \in 1..MaxExpiry}

\* WHERE user_id = ? AND service = ?
CredentialRowsOf(rows, user_id, service) ==
    LET Matches(row) == row.user_id = user_id /\ row.service = service
    IN  SelectSeq(rows, Matches)

\* get_user_credential: fetch_optional, the first row of the result, if any
get_user_credential(rows, user_id, service) ==
    LET found == CredentialRowsOf(rows, user_id, service) IN
    IF found = <<>> THEN NoCredential
    ELSE [present |-> TRUE,
          access_token |-> found[1].access_token,
          refresh_token |-> found[1].refresh_token,
          expires_at |-> found[1].expires_at]

\* INSERT INTO user_credentials without a conflict clause
InsertCredential(rows, row) == Append(rows, row)

\* store_credentials, lines 348-358: INSERT .. ON CONFLICT(user_id, service)
\* DO UPDATE SET .. = excluded.. (the table is UNIQUE(user_id, service))
UpsertCredential(rows, row) ==
    IF CredentialRowsOf(rows, row.user_id, row.service) = <<>>
    THEN Append(rows, row)
    ELSE [i \in DOMAIN rows |->
            IF rows[i].user_id = row.user_id /\ rows[i].service = row.service
            THEN row
            ELSE rows[i]]

\* update_credentials, lines 379-385: UPDATE .. SET .. WHERE user_id = ? AND
\* service = ?
UpdateCredential(rows, row) ==
    [i \in DOMAIN rows |->
        IF rows[i].user_id = row.user_id /\ rows[i].service = row.service
        THEN row
        ELSE rows[i]]

\* DELETE FROM user_credentials WHERE user_id = ? AND service = ?
DeleteCredential(rows, user_id, service) ==
    LET Kept(row) == ~(row.user_id = user_id /\ row.service = service)
    IN  SelectSeq(rows, Kept)

CredentialRow(user_id, service, access_token, refresh_token, expires_at) ==
    [user_id |-> user_id, service |-> service, access_token |-> access_token,
     refresh_token |-> refresh_token, expires_at |-> expires_at]

StoreResult(op, user_id, service, result) ==
    [op |-> op, user_id |-> user_id, service |-> service, result |-> result]

\* SpotifyAuthService::store_credentials; the tokens arrive encoded
store_credentials(user_id, service, access_token, refresh_token, expires_at) ==
    /\ credential_rows' =
         UpsertCredential(credential_rows,
                          CredentialRow(user_id, service, access_token,
                                        refresh_token, expires_at))
    /\ store_result' = StoreResult("store_credentials", user_id, service, "Ok")
    /\ UNCHANGED <<playlist_requests, batch, preview_call,
                   watcherVars, credVars, authVars, repoVars, cacheVars>>

\* SpotifyAuthService::update_credentials, the last statement of
\* refresh_tokens
update_credentials(user_id, service, access_token, refresh_token, expires_at) ==
    /\ credential_rows' =
         UpdateCredential(credential_rows,
                          CredentialRow(user_id, service, access_token,
                                        refresh_token, expires_at))
    /\ store_result' = StoreResult("update_credentials", user_id, service, "Ok")
    /\ UNCHANGED <<playlist_requests, batch, preview_call,
                   watcherVars, credVars, authVars, repoVars, cacheVars>>

\* SpotifyAuthService::revoke_tokens (api/spotify.rs auth_disconnect)
revoke_tokens(user_id) ==
    /\ credential_rows' = DeleteCredential(credential_rows, user_id, "spotify")
    /\ store_result' = StoreResult("revoke_tokens", user_id, "spotify", "Ok")
    /\ UNCHANGED <<playlist_requests, batch, preview_call,
                   watcherVars, credVars, authVars, repoVars, cacheVars>>

\* api/users.rs delete_user_credentials, called by delete::connection once
\* the service name has been validated
delete_user_credentials(user_id, service) ==
    /\ service \in {"youtube_music", "spotify"}
    /\ credential_rows' = DeleteCredential(credential_rows, user_id, service)
    /\ store_result' =
         StoreResult("delete_user_credentials", user_id, service, "Ok")
    /\ UNCHANGED <<playlist_requests, batch, preview_call,
                   watcherVars, credVars, authVars, repoVars, cacheVars>>

\* UserService::delete_service_connection: validation, DELETE, and an error
\* when rows_affected() is 0
delete_service_connection(user_id, service) ==
    /\ credential_rows' =
         IF service \in {"youtube_music", "spotify"}
         THEN DeleteCredential(credential_rows, user_id, service)
         ELSE credential_rows
    /\ store_result' =
         StoreResult("delete_service_connection", user_id, service,
            IF service \notin {"youtube_music", "spotify"}
            THEN "ValidationError"
            ELSE IF CredentialRowsOf(credential_rows, user_id, service) = <<>>
            THEN "ServiceConnectionNotFound"
            ELSE "Ok")
    /\ UNCHANGED <<playlist_requests, batch, preview_call,
                   watcherVars, credVars, authVars, repoVars, cacheVars>>

\* SpotifyClient::is_authenticated: has_valid_credentials of the user's
\* "spotify" row at the current instant
is_authenticated(user_id) ==
    /\ store_result' =
         StoreResult("has_valid_credentials", user_id, "spotify",
            IF has_valid_credentials(
                   get_user_credential(credential_rows, user_id, "spotify"), now)
            THEN "Ok(true)"
            ELSE "Ok(false)")
    /\ UNCHANGED <<credential_rows, playlist_requests, batch, preview_call,
                   watcherVars, credVars, authVars, repoVars, cacheVars>>

\* an empty table, nothing else going on
InitStore ==
    /\ WatcherInit
    /\ CredIdle
    /\ AuthInit
    /\ ServiceIdle
    /\ CacheIdle
    /\ RepoIdle

NextStore ==
    \/ \E user_id \in Users, token \in TokenPairs, expires_at \in Expiries :
           store_credentials(user_id, "spotify", token.access_token,
                             token.refresh_token, expires_at)
    \/ \E user_id \in Users, token \in TokenPairs, expires_at \in Expiries :
           update_credentials(user_id, "spotify", token.access_token,
                              token.refresh_token, expires_at)
    \/ \E user_id \in Users : revoke_tokens(user_id)
    \/ \E user_id \in Users, service \in RequestedServices :
           delete_user_credentials(user_id, service)
    \/ \E user_id \in Users, service \in RequestedServices :
           delete_service_connection(user_id, service)
    \/ \E user_id \in Users : is_authenticated(user_id)
    \/ AdvanceTime

SpecStore == InitStore /\ [][NextStore]_vars

(* ===================== restart of the scheduler ======================= *)

\* The process is started again, after a crash or a shutdown: the tasks and
\* calls of the old process are gone with it.  Watcher::new builds an empty
\* running_watchers and start_monitoring calls start_watcher_task for every
\* active watcher; the tables are as the old process left them.
start_monitoring ==
    /\ running_watchers' =
         [w \in WatcherIds |->
            IF HasWatcher(w) /\ watchers[w].is_active THEN w ELSE None]
    /\ procs' =
         [p \in ProcIds |->
            IF p \in WatcherIds /\ HasWatcher(p) /\ watchers[p].is_active
            THEN NewTask(p)
            ELSE FreeProc]
    /\ UNCHANGED <<watchers, sync_operations, source_playlist,
                   credVars, authVars, serviceVars, repoVars, cacheVars>>

NextBoot ==
    \/ start_monitoring
    \/ \E w \in WatcherIds : stop_watcher_task(w)
    \/ \E p \in ProcIds : TaskDropped(p)
    \/ \E p \in ProcIds : IntervalTick(p)
    \/ \E p \in ProcIds : SwGetWatcher(p)
    \/ \E p \in ProcIds : SwCreateSyncOperation(p)
    \/ \E p \in ProcIds : SwUpdateSyncOperation(p)
    \/ \E p \in ProcIds : SwUpdateLastSync(p)
    \/ \E p \in ProcIds : SpGetWatcher(p)
    \/ \E p \in ProcIds : SpCreateSyncOperation(p)
    \/ \E p \in ProcIds, readable \in BOOLEAN : SpPreviewSync(p, readable)
    \/ \E p \in ProcIds : SpUpdateSyncOperation(p)
    \/ \E p \in ProcIds : SpUpdateLastSync(p)

SpecBoot == Init /\ [][NextBoot]_vars

(* ================ preview (app/spotify/sync.rs, watcher.rs) =========== *)

\* A playlist item with its identity: `id` is the track (its Spotify URL,
\* which is what the link API is asked about and what decides its answer),
\* `kind` the answer of the link API for that track.

\* the items of a playlist whose entries are all different tracks
DistinctItems(tracks) ==
    [i \in DOMAIN tracks |-> [id |-> i, kind |-> tracks[i]]]

\* preview_sync, lines 53-103: songs_to_add, one entry pushed for every
\* track item that find_track_on_target_service resolves, in playlist order
RECURSIVE SongsToAdd(_, _)
SongsToAdd(items, target_service) ==
    IF items = <<>> THEN <<>>
    ELSE LET rest == SongsToAdd(Tail(items), target_service) IN
         IF Head(items).kind # "episode"
            /\ FindTrackOnTargetService(Head(items).kind, target_service) = "some"
         THEN <<Head(items).id>> \o rest
         ELSE rest

\* a songs_failed that takes every unresolved item, track or not
RECURSIVE SongsFailedOfAnyItem(_, _)
SongsFailedOfAnyItem(items, target_service) ==
    IF items = <<>> THEN <<>>
    ELSE LET rest == SongsFailedOfAnyItem(Tail(items), target_service) IN
         IF FindTrackOnTargetService(Head(items).kind, target_service) = "none"
         THEN <<Head(items).id>> \o rest
         ELSE rest

\* preview_sync, lines 53-103: songs_failed, one entry pushed for every
\* track item that is not resolved
RECURSIVE SongsFailed(_, _)
SongsFailed(items, target_service) ==
    IF items = <<>> THEN <<>>
    ELSE LET rest == SongsFailed(Tail(items), target_service) IN
         IF Head(items).kind # "episode"
            /\ FindTrackOnTargetService(Head(items).kind, target_service) = "none"
         THEN <<Head(items).id>> \o rest
         ELSE rest

\* SpotifySyncService::preview_sync: Err when get_playlist_tracks fails,
\* otherwise the SyncPreviewResponse (songs_to_remove is always empty)
PreviewResponse(readable, items, target_service) ==
    IF readable
    THEN [items |-> items, target_service |-> target_service, result |-> "Ok",
          songs_to_add |-> SongsToAdd(items, target_service),
          songs_failed |-> SongsFailed(items, target_service)]
    ELSE [items |-> items, target_service |-> target_service, result |-> "Err",
          songs_to_add |-> <<>>, songs_failed |-> <<>>]

\* Watcher::preview_sync is called
preview_sync(w) ==
    /\ FreeProcs # {}
    /\ procs' = [procs EXCEPT ![Min(FreeProcs)] =
                   [FreeProc EXCEPT !.kind = "preview", !.pc = "pv_get",
                                    !.watcher = w]]
    /\ UNCHANGED <<watchers, sync_operations, running_watchers, source_playlist,
                   credVars, authVars, serviceVars, repoVars, cacheVars>>

\* Watcher::preview_sync, lines 221-240: load the watcher; Err if there is
\* no such row or if its source service is not "spotify"
PvGetWatcher(p) ==
    /\ procs[p].kind = "preview"
    /\ procs[p].pc = "pv_get"
    /\ Continue(p, IF HasWatcher(procs[p].watcher)
                      /\ watchers[procs[p].watcher].source_service = "spotify"
                   THEN [procs[p] EXCEPT !.pc = "pv_preview"]
                   ELSE FreeProc)
    /\ UNCHANGED <<watchers, sync_operations, running_watchers, source_playlist,
                   credVars, authVars, serviceVars, repoVars, cacheVars>>

\* a preview that goes on to write the watcher's last sync time
PvPreviewAndTouch(p, readable) ==
    /\ procs[p].kind = "preview"
    /\ procs[p].pc = "pv_preview"
    /\ preview_call' =
         PreviewResponse(readable, DistinctItems(source_playlist),
                         watchers[procs[p].watcher].target_service)
    /\ watchers' = [watchers EXCEPT ![procs[p].watcher].last_sync_at = @ + 1]
    /\ Continue(p, FreeProc)
    /\ UNCHANGED <<sync_operations, running_watchers, source_playlist,
                   credential_rows, store_result, playlist_requests, batch,
                   credVars, authVars, repoVars, cacheVars>>

\* Watcher::preview_spotify_sync, lines 243-260: SpotifySyncService::
\* preview_sync for the watcher's playlist and target service; the response
\* is returned to the caller
PvPreviewSync(p, readable) ==
    /\ procs[p].kind = "preview"
    /\ procs[p].pc = "pv_preview"
    /\ preview_call' =
         PreviewResponse(readable, DistinctItems(source_playlist),
                         watchers[procs[p].watcher].target_service)
    /\ Continue(p, FreeProc)
    /\ UNCHANGED <<watchers, sync_operations, running_watchers, source_playlist,
                   credential_rows, store_result, playlist_requests, batch,
                   credVars, authVars, repoVars, cacheVars>>

(* ---------- the journal under tick, run-now and HTTP syncs ------------ *)

\* source playlists that lead a sync to each of its final statuses
JournalPlaylists ==
    {<<>>, <<"match">>, <<"unmatched">>, <<"match", "unmatched">>}

InitJournal ==
    /\ Init
    /\ source_playlist \in JournalPlaylists

NextJournal ==
    \/ \E p \in ProcIds : IntervalTick(p)
    \/ \E w \in WatcherIds : sync_watcher_now(w)
    \/ \E u \in Users, w \in WatcherIds : sync_execute(u, w)
    \/ \E p \in ProcIds : SwGetWatcher(p)
    \/ \E p \in ProcIds : SwCreateSyncOperation(p)
    \/ \E p \in ProcIds : SwUpdateSyncOperation(p)
    \/ \E p \in ProcIds : SwUpdateLastSync(p)
    \/ \E p \in ProcIds : SpGetWatcher(p)
    \/ \E p \in ProcIds : SpCreateSyncOperation(p)
    \/ \E p \in ProcIds, readable \in BOOLEAN : SpPreviewSync(p, readable)
    \/ \E p \in ProcIds : SpUpdateSyncOperation(p)
    \/ \E p \in ProcIds : SpUpdateLastSync(p)

SpecJournal == InitJournal /\ [][NextJournal]_vars

(* ------------------ previews beside the periodic task ----------------- *)

NextPreview ==
    \/ \E w \in WatcherIds : preview_sync(w)
    \/ \E p \in ProcIds : PvGetWatcher(p)
    \/ \E p \in ProcIds, readable \in BOOLEAN : PvPreviewSync(p, readable)
    \/ \E p \in ProcIds : IntervalTick(p)
    \/ \E p \in ProcIds : SwGetWatcher(p)
    \/ \E p \in ProcIds : SwCreateSyncOperation(p)
    \/ \E p \in ProcIds : SwUpdateSyncOperation(p)
    \/ \E p \in ProcIds : SwUpdateLastSync(p)
    \/ \E p \in ProcIds : SpGetWatcher(p)
    \/ \E p \in ProcIds : SpCreateSyncOperation(p)
    \/ \E p \in ProcIds, readable \in BOOLEAN : SpPreviewSync(p, readable)
    \/ \E p \in ProcIds : SpUpdateSyncOperation(p)
    \/ \E p \in ProcIds : SpUpdateLastSync(p)

SpecPreview == Init /\ [][NextPreview]_vars

(* ------------- preview of a playlist with repeated tracks ------------- *)

MaxItems == 3       \* items of a previewed playlist

\* the items a playlist is made of: two tracks that the link API resolves,
\* one that it does not, and an episode (an item that is not a track)
Catalogue ==
    {[id |-> 1, kind |-> "match"], [id |-> 2, kind |-> "match"],
     [id |-> 3, kind |-> "unmatched"], [id |-> 4, kind |-> "episode"]}

\* playlists over the catalogue, a track may occur more than once
ItemLists == UNION {[1..n -> Catalogue] : n \in 0..MaxItems}

\* api/spotify.rs sync_preview: SpotifySyncService::preview_sync for the
\* playlist and the target service of the request
sync_preview(readable) ==
    /\ preview_call.result = "none"
    /\ preview_call' = PreviewResponse(readable, preview_call.items,
                                       preview_call.target_service)
    /\ UNCHANGED <<credential_rows, store_result, playlist_requests, batch,
                   watcherVars, credVars, authVars, repoVars, cacheVars>>

\* a request is about to be made for some playlist and target service
InitRequest ==
    /\ WatcherInit
    /\ CredIdle
    /\ AuthInit
    /\ credential_rows = <<>>
    /\ store_result = [op |-> "none", user_id |-> 0, service |-> "none",
                       result |-> "none"]
    /\ playlist_requests = <<>>
    /\ batch = NoBatch
    /\ RepoIdle
    /\ CacheIdle
    /\ \E items \in ItemLists, target_service \in TargetServices :
           preview_call = [NoPreview EXCEPT !.items = items,
                                            !.target_service = target_service]

NextRequest == \E readable \in BOOLEAN : sync_preview(readable)

SpecRequest == InitRequest /\ [][NextRequest]_vars

(* ========= adding and removing tracks (app/spotify/playlists.rs) ====== *)

MaxTrackIds == 201  \* ids one call may be given
BatchSize == 100    \* const BATCH_SIZE: usize = 100; chunks(100)

\* the ids of a call, all different: the i-th id is i
TrackIdsOfLength(n) == [i \in 1..n |-> i]

\* the request the Web API receives for each operation
BatchMethod(op) ==
    IF op \in {"add", "client_add"}
    THEN "playlist_add_items"
    ELSE "playlist_remove_all_occurrences_of_items"

\* a chunk that takes one id more than the batch size
NextChunkOffByOne(track_ids, sent) ==
    SubSeq(track_ids, sent + 1,
           IF sent + BatchSize + 1 < Len(track_ids)
           THEN sent + BatchSize + 1
           ELSE Len(track_ids))

\* track_ids.chunks(BATCH_SIZE): the chunk that follows the `sent` ids
\* already handled, BATCH_SIZE ids or what is left of the slice
NextChunk(track_ids, sent) ==
    SubSeq(track_ids, sent + 1,
           IF sent + BatchSize < Len(track_ids)
           THEN sent + BatchSize
           ELSE Len(track_ids))

\* a call begins.  SpotifyPlaylistService::add_tracks_to_playlist and
\* remove_tracks_from_playlist return Ok(()) at once for an empty slice;
\* `valid` tells whether every id converts with TrackId::from_id
BeginBatch(op, n, valid) ==
    /\ batch.pc = "idle"
    /\ n = 0 => valid
    /\ batch' = IF n = 0 /\ op \in {"add", "remove"}
                THEN [op |-> op, track_ids |-> <<>>, valid |-> valid,
                      sent |-> 0, pc |-> "done", result |-> "Ok"]
                ELSE [op |-> op, track_ids |-> TrackIdsOfLength(n),
                      valid |-> valid, sent |-> 0, pc |-> "auth",
                      result |-> "none"]
    /\ UNCHANGED <<credential_rows, store_result, playlist_requests,
                   preview_call, watcherVars, credVars, authVars, repoVars, cacheVars>>

\* SpotifyPlaylistService::add_tracks_to_playlist
add_tracks_to_playlist(n, valid) == BeginBatch("add", n, valid)

\* SpotifyPlaylistService::remove_tracks_from_playlist
remove_tracks_from_playlist(n, valid) == BeginBatch("remove", n, valid)

\* SpotifyClient::add_tracks_to_playlist (no test for an empty input)
client_add_tracks_to_playlist(n, valid) == BeginBatch("client_add", n, valid)

\* get_authenticated_client_with_refresh returns, then the ids are
\* converted: an error of either ends the call before any request
BatchAuthenticated(authenticated) ==
    /\ batch.pc = "auth"
    /\ batch' =
         IF ~authenticated
         THEN [batch EXCEPT !.pc = "done", !.result = "AuthenticationFailed"]
         ELSE IF ~batch.valid
         THEN [batch EXCEPT !.pc = "done", !.result = "ValidationError"]
         ELSE IF batch.track_ids = <<>>
         THEN [batch EXCEPT !.pc = "done", !.result = "Ok"]
         ELSE [batch EXCEPT !.pc = "send"]
    /\ UNCHANGED <<credential_rows, store_result, playlist_requests,
                   preview_call, watcherVars, credVars, authVars, repoVars, cacheVars>>

\* what the Web API answers to one request
Answers == {"Ok", "RateLimited", "Upstream5xx", "Forbidden"}

\* one turn of `for chunk in track_ids.chunks(BATCH_SIZE)`: the request
\* for the chunk is sent; any error answer ends the call with ApiError
\* (.map_err(..)?), the last chunk ends it with Ok(())
BatchRequest(answer) ==
    /\ batch.pc = "send"
    /\ LET chunk == NextChunk(batch.track_ids, batch.sent) IN
         /\ playlist_requests' =
              Append(playlist_requests,
                     [method |-> BatchMethod(batch.op), ids |-> chunk,
                      answer |-> answer])
         /\ upstream_playlist' =
              IF answer = "Ok" THEN upstream_playlist + 1
              ELSE upstream_playlist
         /\ batch' =
              IF answer # "Ok"
              THEN [batch EXCEPT !.pc = "done", !.result = "ApiError"]
              ELSE IF batch.sent + Len(chunk) = Len(batch.track_ids)
              THEN [batch EXCEPT !.sent = @ + Len(chunk),
                                 !.pc = "invalidate"]
              ELSE [batch EXCEPT !.sent = @ + Len(chunk)]
    /\ UNCHANGED <<credential_rows, store_result, preview_call,
                   watcherVars, credVars, authVars, repoVars, track_cache,
                   fetches>>

\* after the last chunk: `// Invalidate cache`, cache.remove(&cache_key),
\* Ok(()).  SpotifyClient::add_tracks_to_playlist has no cache to clear
BatchInvalidate ==
    /\ batch.pc = "invalidate"
    /\ track_cache' = IF batch.op = "client_add" THEN track_cache ELSE NoneOpt
    /\ batch' = [batch EXCEPT !.pc = "done", !.result = "Ok"]
    /\ UNCHANGED <<credential_rows, store_result, playlist_requests,
                   preview_call, watcherVars, credVars, authVars, repoVars,
                   upstream_playlist, fetches>>

InitBatch ==
    /\ WatcherInit
    /\ CredIdle
    /\ AuthInit
    /\ ServiceIdle
    /\ CacheIdle
    /\ RepoIdle

NextBatch ==
    \/ \E n \in 0..MaxTrackIds, valid \in BOOLEAN :
           add_tracks_to_playlist(n, valid)
    \/ \E n \in 0..MaxTrackIds, valid \in BOOLEAN :
           remove_tracks_from_playlist(n, valid)
    \/ \E n \in 0..MaxTrackIds, valid \in BOOLEAN :
           client_add_tracks_to_playlist(n, valid)
    \/ \E authenticated \in BOOLEAN : BatchAuthenticated(authenticated)
    \/ \E answer \in Answers : BatchRequest(answer)
    \/ BatchInvalidate

SpecBatch == InitBatch /\ [][NextBatch]_vars

(* ============ the sled user repository (database/repositories) ======== *)

MaxUsers == 2  \* users the tree may hold; ids given to update and delete

Usernames == {"user1", "user2"}
Passwords == {"pass1", "pass2"}
UserIds == 0..MaxUsers

\* the k-th least significant byte of an i64 between 0 and 2^24
ByteOf(id, k) == IF k > 2 THEN 0 ELSE (id \div (256 ^ k)) % 256

\* bincode::serialize(&id) of an i64: eight bytes, least significant first
LeBytes(id) == [i \in 1..8 |-> ByteOf(id, i - 1)]

\* id.to_be_bytes().to_vec(): eight bytes, most significant first
BeBytes(id) == [i \in 1..8 |-> ByteOf(id, 8 - i)]

\* User::with_credentials
with_credentials(id, username, password) ==
    [id |-> id, username |-> username, password |-> password]

\* tree.insert(key, value)
TreeInsert(tree, key, value) ==
    [k \in DOMAIN tree \cup {key} |-> IF k = key THEN value ELSE tree[k]]

\* tree.remove(key)
TreeRemove(tree, key) == [k \in DOMAIN tree \ {key} |-> tree[k]]

\* SledRepository::get on the users tree: the key is the serialized id
BaseGet(tree, key) == IF key \in DOMAIN tree THEN Some(tree[key]) ELSE NoneOpt

\* Repository::get
get(tree, id) == BaseGet(tree, LeBytes(id))

\* Repository::list: the values of the tree
list(tree) == {tree[k] : k \in DOMAIN tree}

\* UserRepository::get_by_username: the bytes found in the index are read
\* as an i64 by bincode::deserialize (least significant byte first) and
\* that id is looked up, that is, the key of the lookup is those bytes
get_by_username(tree, index, username) ==
    IF username \in DOMAIN index
    THEN BaseGet(tree, index[username])
    ELSE NoneOpt

\* let id = self.base_repo.list()?.len() as i64 + 1
NewUserId(tree) == Cardinality(DOMAIN tree) + 1

\* UserRepository::create_user
create_user(username, password) ==
    /\ Cardinality(DOMAIN users_tree) < MaxUsers
    /\ IF get_by_username(users_tree, username_index, username) # NoneOpt
       THEN /\ repo_call' = [op |-> "create_user", result |-> "InvalidData"]
            /\ UNCHANGED <<users_tree, username_index, live_users, cacheVars>>
       ELSE LET id == NewUserId(users_tree)
                user == with_credentials(id, username, password)
            IN  /\ users_tree' = TreeInsert(users_tree, LeBytes(id), user)
                /\ username_index' =
                     TreeInsert(username_index, username, BeBytes(id))
                /\ live_users' = live_users \cup {user}
                /\ repo_call' = [op |-> "create_user", result |-> "Ok"]
    /\ UNCHANGED <<watcherVars, credVars, authVars, serviceVars, cacheVars>>

\* Repository::update of UserRepository: the index entry of the model's
\* name is written, then the model is stored under its id
update(model) ==
    /\ Cardinality(DOMAIN users_tree \cup {LeBytes(model.id)}) <= MaxUsers
    /\ username_index' =
         TreeInsert(username_index, model.username, BeBytes(model.id))
    /\ users_tree' = TreeInsert(users_tree, LeBytes(model.id), model)
    /\ live_users' = {u \in live_users : u.id # model.id}
    /\ repo_call' = [op |-> "update", result |-> "Ok"]
    /\ UNCHANGED <<watcherVars, credVars, authVars, serviceVars, cacheVars>>

\* Repository::delete of UserRepository: the index entry of the stored
\* user's name is removed, then the user
delete(id) ==
    /\ username_index' =
         IF get(users_tree, id) # NoneOpt
         THEN TreeRemove(username_index, Unwrap(get(users_tree, id)).username)
         ELSE username_index
    /\ users_tree' = TreeRemove(users_tree, LeBytes(id))
    /\ live_users' = {u \in live_users : u.id # id}
    /\ repo_call' = [op |-> "delete", result |-> "Ok"]
    /\ UNCHANGED <<watcherVars, credVars, authVars, serviceVars, cacheVars>>

InitRepo ==
    /\ WatcherInit
    /\ CredIdle
    /\ AuthInit
    /\ ServiceIdle
    /\ CacheIdle
    /\ RepoIdle

NextRepo ==
    \/ \E username \in Usernames, password \in Passwords :
           create_user(username, password)
    \/ \E id \in UserIds, username \in Usernames, password \in Passwords :
           update(with_credentials(id, username, password))
    \/ \E id \in UserIds : delete(id)

SpecRepo == InitRepo /\ [][NextRepo]_vars

\* the repository under create_user and delete alone
NextCreateDelete ==
    \/ \E username \in Usernames, password \in Passwords :
           create_user(username, password)
    \/ \E id \in UserIds : delete(id)

SpecCreateDelete == InitRepo /\ [][NextCreateDelete]_vars

(* ============ the scheduler and the HTTP start/stop handlers ========== *)

\* the steps of a periodic task: the tick of its interval and the awaits of
\* sync_watcher
TaskStep(p) ==
    \/ IntervalTick(p)
    \/ SwGetWatcher(p)
    \/ SwCreateSyncOperation(p)
    \/ SpGetWatcher(p)
    \/ SpCreateSyncOperation(p)
    \/ \E readable \in BOOLEAN : SpPreviewSync(p, readable)
    \/ SpUpdateSyncOperation(p)
    \/ SpUpdateLastSync(p)
    \/ SwUpdateSyncOperation(p)
    \/ SwUpdateLastSync(p)

\* the tasks spawned at boot run; the handlers flip is_active
NextLive ==
    \/ \E w \in WatcherIds, is_active \in BOOLEAN :
           update_watcher_status(w, is_active)
    \/ \E p \in ProcIds : TaskStep(p)

\* the tokio runtime keeps polling every spawned task: a step of a task that
\* stays possible is taken
SpecLive ==
    /\ Init
    /\ [][NextLive]_vars
    /\ \A p \in ProcIds : WF_vars(TaskStep(p))

(* ============ the track cache (app/spotify/playlists.rs) ============== *)

CacheDuration == 300  \* cache_duration_seconds: 300

\* the length of the input of a mutation beside the cache: two batches
CacheBatchLengths == {BatchSize + 1}

\* the mutation has returned to its caller
BatchReturned == batch.pc = "done"

\* the clock, in seconds: the lifetime of a cache entry passes
CacheClock(seconds) ==
    /\ now + seconds <= CacheDuration
    /\ now' = now + seconds
    /\ UNCHANGED <<user_credentials, upstream, callers, watcherVars, authVars,
                   serviceVars, repoVars, cacheVars>>

\* get_playlist_tracks, lines 150-162: `now` is taken, then the cache is
\* asked: an entry younger than cache_duration_seconds is returned.  The
\* calls are numbered in the order in which they begin
get_playlist_tracks(f) ==
    /\ fetches[f].pc = "idle"
    /\ \A g \in FetchIds : g < f => fetches[g].pc # "idle"
    /\ fetches' = [fetches EXCEPT ![f] =
         IF /\ track_cache # NoneOpt
            /\ now - Unwrap(track_cache).cached_at < CacheDuration
         THEN [pc |-> "done", now |-> now,
               tracks |-> Unwrap(track_cache).tracks, from_cache |-> TRUE,
               after |-> BatchReturned, result |-> "Ok"]
         ELSE [pc |-> "auth", now |-> now, tracks |-> 0, from_cache |-> FALSE,
               after |-> BatchReturned, result |-> "none"]]
    /\ UNCHANGED <<upstream_playlist, track_cache, watcherVars, credVars,
                   authVars, serviceVars, repoVars>>

\* get_playlist_tracks, lines 164-170: the authenticated client
FetchAuthenticated(f, authenticated) ==
    /\ fetches[f].pc = "auth"
    /\ fetches' = [fetches EXCEPT ![f] =
         IF authenticated THEN [@ EXCEPT !.pc = "items"]
         ELSE [@ EXCEPT !.pc = "done", !.result = "AuthenticationFailed"]]
    /\ UNCHANGED <<upstream_playlist, track_cache, watcherVars, credVars,
                   authVars, serviceVars, repoVars>>

\* get_playlist_tracks, lines 172-191: the items are read from Spotify as
\* they are now; an error answer ends the call
FetchItems(f, answered) ==
    /\ fetches[f].pc = "items"
    /\ fetches' = [fetches EXCEPT ![f] =
         IF answered THEN [@ EXCEPT !.pc = "store", !.tracks = upstream_playlist]
         ELSE [@ EXCEPT !.pc = "done", !.result = "ApiError"]]
    /\ UNCHANGED <<upstream_playlist, track_cache, watcherVars, credVars,
                   authVars, serviceVars, repoVars>>

\* get_playlist_tracks, lines 193-206: the list is put in the cache with
\* cached_at = the `now` of the beginning of the call, and returned
FetchStore(f) ==
    /\ fetches[f].pc = "store"
    /\ track_cache' = Some([tracks |-> fetches[f].tracks,
                            cached_at |-> fetches[f].now])
    /\ fetches' = [fetches EXCEPT ![f] = [@ EXCEPT !.pc = "done",
                                                   !.result = "Ok"]]
    /\ UNCHANGED <<upstream_playlist, watcherVars, credVars, authVars,
                   serviceVars, repoVars>>

InitCache ==
    /\ WatcherInit
    /\ CredIdle
    /\ AuthInit
    /\ ServiceIdle
    /\ RepoIdle
    /\ CacheIdle

NextCache ==
    \/ \E seconds \in {CacheDuration} : CacheClock(seconds)
    \/ \E f \in FetchIds : get_playlist_tracks(f)
    \/ \E f \in FetchIds, authenticated \in BOOLEAN :
           FetchAuthenticated(f, authenticated)
    \/ \E f \in FetchIds, answered \in BOOLEAN : FetchItems(f, answered)
    \/ \E f \in FetchIds : FetchStore(f)
    \/ \E n \in CacheBatchLengths : add_tracks_to_playlist(n, TRUE)
    \/ \E n \in CacheBatchLengths : remove_tracks_from_playlist(n, TRUE)
    \/ \E authenticated \in BOOLEAN : BatchAuthenticated(authenticated)
    \/ \E answer \in {"Ok", "Forbidden"} : BatchRequest(answer)
    \/ BatchInvalidate

SpecCache == InitCache /\ [][NextCache]_vars

(* ============ disconnecting beside a refresh in flight ================ *)

\* api/spotify.rs auth_disconnect: revoke_tokens deletes the user's
\* "spotify" row (DELETE, Ok whether or not there was one)
auth_disconnect ==
    /\ user_credentials' = NoCredential
    /\ store_result' = StoreResult("revoke_tokens", OwnerOf(1), "spotify", "Ok")
    /\ UNCHANGED <<now, upstream, callers, credential_rows, playlist_requests,
                   batch, preview_call, watcherVars, authVars, repoVars,
                   cacheVars>>

\* a new OAuth flow completes: complete_auth_flow exchanges the code and
\* store_credentials writes the row (INSERT .. ON CONFLICT DO UPDATE)
auth_reconnect ==
    /\ upstream.calls < MaxRefreshes
    /\ upstream' = [calls |-> upstream.calls + 1, next |-> upstream.next + 1]
    /\ user_credentials' =
         [present |-> TRUE,
          access_token |-> Encrypt(upstream.next),
          refresh_token |-> Some(Encrypt(upstream.next)),
          expires_at |-> Some(now + ExpiresIn)]
    /\ store_result' =
         StoreResult("store_credentials", OwnerOf(1), "spotify", "Ok")
    /\ UNCHANGED <<now, callers, credential_rows, playlist_requests, batch,
                   preview_call, watcherVars, authVars, repoVars, cacheVars>>

\* a linked account whose access token has expired, or no account
InitRevoke ==
    /\ WatcherInit
    /\ AuthInit
    /\ ServiceIdle
    /\ CacheIdle
    /\ RepoIdle
    /\ user_credentials \in
         {NoCredential,
          [present |-> TRUE, access_token |-> Encrypt(1),
           refresh_token |-> Some(Encrypt(1)), expires_at |-> Some(1)]}
    /\ now = 1
    /\ upstream = [calls |-> 0, next |-> 2]
    /\ callers = [c \in CallerIds |-> IdleCaller]

\* the call of the Spotify client that is in flight beside the disconnect
RevokeCallers == {1}

NextRevoke ==
    \/ \E c \in RevokeCallers : BeginCall(c)
    \/ \E c \in RevokeCallers : CheckCredentials(c)
    \/ \E c \in RevokeCallers : RefreshRead(c)
    \/ \E c \in RevokeCallers, accepted \in BOOLEAN, rotated \in BOOLEAN :
           RefreshExchange(c, accepted, rotated)
    \/ \E c \in RevokeCallers : UpdateCredentials(c)
    \/ \E c \in RevokeCallers : GetAccessToken(c)
    \/ \E c \in RevokeCallers, rejected \in BOOLEAN : ApiRequest(c, rejected)
    \/ auth_disconnect
    \/ auth_reconnect

SpecRevoke == InitRevoke /\ [][NextRevoke]_vars

(* ============================ properties ============================== *)

RowIds == DOMAIN sync_operations
TerminalStatuses == {"completed", "completed_with_errors", "failed"}

PendingRows(w) ==
    {i \in RowIds : /\ sync_operations[i].watcher_id = w
                    /\ sync_operations[i].status = "pending"}

\* executions that are inside a sync of watcher w
Executing(w) ==
    {p \in ProcIds : /\ procs[p].kind # "free"
                     /\ ~procs[p].aborted
                     /\ procs[p].watcher = w
                     /\ procs[p].pc \in SyncPcs}

\* periodic tasks of watcher w that have not been aborted
LiveTasks(w) ==
    {p \in ProcIds : /\ procs[p].kind = "tick"
                     /\ ~procs[p].aborted
                     /\ procs[p].watcher = w}

\* C1: for every watcher, in every reachable state, the journal holds at
\* most one row with status "pending" for that watcher.
C1_AtMostOnePendingRow ==
    \A w \in WatcherIds : Cardinality(PendingRows(w)) <= 1

\* C2: for a given watcher no two sync executions (periodic tick, run-now,
\* HTTP sync_execute) are in progress at the same time.
C2_NoOverlappingExecutions ==
    \A w \in WatcherIds : Cardinality(Executing(w)) <= 1

\* C4: after any sequence of start_watcher_task and stop_watcher_task there
\* is at most one live periodic task per watcher, and every live task is the
\* one whose handle running_watchers holds.
C4_OneTaskHeldInMap ==
    \A w \in WatcherIds :
        /\ Cardinality(LiveTasks(w)) <= 1
        /\ \A p \in LiveTasks(w) : running_watchers[w] = p

\* C3: callers that concurrently found the same stored token expired issue
\* one upstream refresh exchange between them, and those that succeed
\* proceed with the same access token.
C3_RefreshIsSingleFlight ==
    \A c1, c2 \in CallerIds :
        (c1 # c2 /\ callers[c1].seen # NoneOpt
                 /\ callers[c1].seen = callers[c2].seen)
            => /\ ~(/\ callers[c1].pc # "idle" /\ callers[c1].exchanged
                    /\ callers[c2].pc # "idle" /\ callers[c2].exchanged)
               /\ (callers[c1].result = "ok" /\ callers[c2].result = "ok")
                      => callers[c1].token = callers[c2].token

\* a periodic task begins a sync execution or a journal row in this step
TaskBegins(p) ==
    /\ procs[p].kind = "tick"
    /\ procs'[p] # procs[p]
    /\ \/ procs[p].pc = "tick" /\ procs'[p].pc = "sw_get"
       \/ Len(sync_operations') > Len(sync_operations)

\* C5: once stop_watcher_task has returned (the map holds no handle for the
\* watcher), no task of that watcher begins a sync execution or a journal
\* row until the next start.
C5_StopIsSynchronous ==
    [][\A p \in ProcIds :
          (procs[p].kind = "tick" /\ running_watchers[procs[p].watcher] = None)
              => ~TaskBegins(p)]_vars

\* C6: a stop never leaves a journal row pending: every pending row belongs
\* to an execution that is still in progress.
C6_NoPendingRowLeftBehind ==
    \A i \in RowIds :
        sync_operations[i].status = "pending"
            => \E p \in ProcIds : /\ procs[p].kind # "free"
                                  /\ i \in {procs[p].outer, procs[p].inner}

\* C7: a row written by sync_playlist_to_target has status "failed" only if
\* the source playlist could not be read; unresolved tracks alone never
\* make the sync "failed".
C7_FailedOnlyOnSourceError ==
    \A i \in RowIds :
        (sync_operations[i].operation_type = "spotify_sync"
         /\ sync_operations[i].status = "failed")
            => sync_operations[i].error_message = "source_error"

\* C8: when the source playlist cannot be read during a scheduled sync, no
\* journal row of that execution ends with status "completed".
C8_UnreadableSourceNotCompleted ==
    \A p \in ProcIds :
        (procs[p].kind \in {"tick", "now"} /\ procs[p].error = "source_error")
            => \A i \in {procs[p].outer, procs[p].inner} \ {None} :
                   sync_operations[i].status # "completed"

\* C9: for every journal row, completed_at is set if and only if the status
\* is terminal (completed, completed_with_errors or failed).
C9_CompletedAtIffTerminal ==
    \A i \in RowIds :
        sync_operations[i].completed_at
            <=> (sync_operations[i].status \in TerminalStatuses)

\* C10: songs_added, songs_removed and songs_failed are >= 0 in every
\* journal row and in every result a sync returns.
C10_CountsNonNegative ==
    /\ \A i \in RowIds : /\ sync_operations[i].songs_added >= 0
                         /\ sync_operations[i].songs_removed >= 0
                         /\ sync_operations[i].songs_failed >= 0
    /\ \A p \in ProcIds : procs[p].result = "ok"
                            => procs[p].added >= 0 /\ procs[p].failed >= 0

\* the journal rows of one operation type of watcher w, oldest first
RowsOf(w, operation_type) ==
    LET Wanted(row) == /\ row.watcher_id = w
                       /\ row.operation_type = operation_type
    IN  SelectSeq(sync_operations, Wanted)

\* C11: running the sync twice in a row against an unchanged source and an
\* unchanged target, without transient failure, yields on the second run
\* songs_added = 0, songs_removed = 0 and status "completed".  (The source
\* playlist is the same in every state of a behaviour, nothing else writes
\* the target, and the runs of the lone task follow one another; the first
\* run is taken to have completed without error.)
C11_SecondRunAddsNothing ==
    \A w \in WatcherIds :
        LET runs == RowsOf(w, "spotify_sync") IN
        \A i \in 2..Len(runs) :
            (/\ runs[i - 1].status = "completed"
             /\ runs[i].status \in TerminalStatuses
             /\ runs[i].error_message # "source_error")
                => /\ runs[i].songs_added = 0
                   /\ runs[i].songs_removed = 0
                   /\ runs[i].status = "completed"

\* C12: a sync execution writes the watcher's last_sync_at only when it ends
\* as "completed" or "completed_with_errors"; an execution that ends as
\* "failed" leaves last_sync_at unchanged.
C12_LastSyncOnlyOnSuccess ==
    [][\A w \in WatcherIds :
          watchers'[w].last_sync_at # watchers[w].last_sync_at
              => \E p \in ProcIds :
                     /\ procs[p].watcher = w
                     /\ procs[p].pc \in {"sp_last", "sw_last"}
                     /\ procs'[p] # procs[p]
                     /\ procs[p].status \in {"completed",
                                             "completed_with_errors"}]_vars

\* C13: after 5 consecutive failed runs of a watcher's task the watcher is
\* deactivated and the task exits, so that no 6th run happens without an
\* explicit start: the task never opens a journal row after five failed
\* rows in a row.  (Under SpecTask nobody starts or activates anything.)
C13_NoSixthRunAfterFiveFailures ==
    \A w \in WatcherIds :
        LET runs == RowsOf(w, "auto_sync") IN
        \A i \in 6..Len(runs) :
            \E j \in (i - 5)..(i - 1) : runs[j].status # "failed"

\* C16: when a watcher's task finds at a tick that its watcher is inactive
\* or no longer exists, the task exits: it does not go back to waiting for
\* the next tick of that watcher.
C16_TaskExitsWhenInactive ==
    [][\A p \in ProcIds :
          (/\ procs[p].kind = "tick"
           /\ procs[p].pc = "sw_get"
           /\ ~procs[p].aborted
           /\ ~(/\ HasWatcher(procs[p].watcher)
                /\ watchers[procs[p].watcher].is_active))
              => ~(procs'[p].kind = "tick" /\ procs'[p].pc = "tick")]_vars

\* max(p, 300) on the integers
ClampedPeriod(p) == IF p > MinSyncFrequency THEN p ELSE MinSyncFrequency

\* C14: for every stored sync_frequency p of a watcher (any i32, 0 and
\* negative values included) the task that start_watcher_task spawns ticks
\* every max(p, 300) seconds, hence every 300 seconds whenever p < 300.
C14_IntervalIsClampedPeriod ==
    [][\A p \in ProcIds :
          (/\ procs[p].kind = "free"
           /\ procs'[p].kind = "tick"
           /\ HasWatcher(procs'[p].watcher))
              => procs'[p].interval =
                     U64(ClampedPeriod(watchers[procs'[p].watcher].sync_frequency))
      ]_vars

\* C15: every watcher row produced by create_watcher has a sync period of at
\* least 300 seconds, whatever sync_frequency the request carried.
C15_CreatedPeriodAtLeastMinimum ==
    \A w \in DOMAIN watchers : watchers[w].sync_frequency >= MinSyncFrequency

\* C19: once get_authenticated_client_with_refresh has done its refresh
\* step, the read of the access token either returns a token whose expiry
\* has not passed or the call fails with AuthenticationFailed: the call
\* never surfaces TokenExpired and never returns an expired token.
C19_NoExpiredTokenAfterRefresh ==
    [][\A c \in CallerIds :
          (/\ callers[c].pc \in {"refresh_read", "exchange", "update",
                                  "get_token"}
           /\ callers'[c] # callers[c])
              => /\ callers'[c].result # "TokenExpired"
                 /\ callers'[c].token # NoneOpt
                        => has_valid_credentials(user_credentials, now)]_vars

\* C20: a call through the Spotify client that meets an auth-expiry
\* condition (the stored token has expired, or upstream rejects the token)
\* refreshes the credential and retries the request exactly once before it
\* surfaces a failure, and a successful refresh leaves the new access and
\* refresh tokens in the store.
C20_RefreshAndRetryOnce ==
    [][\A c \in CallerIds :
          callers'[c] # callers[c]
              => /\ callers'[c].response = "unauthenticated"
                        => ~user_credentials.present
                 /\ callers'[c].response = "ApiError"
                        => callers'[c].exchanged /\ callers'[c].requests = 2
                 /\ (callers[c].pc = "update" /\ user_credentials.present)
                        => /\ user_credentials'.access_token
                                  = callers[c].resp.access_token
                           /\ user_credentials'.refresh_token
                                  = callers[c].resp.refresh_token]_vars

\* call k of complete_auth_flow passed the state validation
Matched(k) == callbacks[k].result # "InvalidOAuthState"

\* the state value of call k is one that the service the call went to has
\* issued, it had not expired when the call came, and no earlier call to
\* that service carried it
Matchable(k) ==
    /\ \E i \in issued : /\ i.state = callbacks[k].state
                         /\ i.service = callbacks[k].service
                         /\ callbacks[k].at <= i.expires_at
    /\ \A j \in 1..(k - 1) :
           ~(/\ callbacks[j].state = callbacks[k].state
             /\ callbacks[j].service = callbacks[k].service)

\* C17: a state value is matched to at most one callback, and
\* complete_auth_flow called with a state that is unknown, expired or
\* already consumed by an earlier callback fails with InvalidOAuthState and
\* stores no credentials.
C17_StateMatchedAtMostOnce ==
    /\ \A k \in DOMAIN callbacks :
           ~Matchable(k) => /\ callbacks[k].result = "InvalidOAuthState"
                            /\ callbacks[k].pc = "done"
                            /\ ~callbacks[k].stored
    /\ \A j, k \in DOMAIN callbacks :
           (j < k /\ callbacks[j].state = callbacks[k].state)
               => ~(Matched(j) /\ Matched(k))

\* C17, witness: a state was consumed by a callback that stored the
\* credentials, and a later callback with the same state was refused.
C17_ReplayRefused ==
    \E j, k \in DOMAIN callbacks :
        /\ j < k
        /\ callbacks[j].state = callbacks[k].state
        /\ callbacks[j].service = HeldService
        /\ callbacks[k].service = HeldService
        /\ callbacks[j].stored
        /\ callbacks[k].result = "InvalidOAuthState"

\* C18: a callback request that carries the state issued by a preceding
\* auth start request, received before the state expires and for the first
\* time, is matched to the stored flow state: it is not rejected as an
\* unknown state (and goes on to the token exchange).
C18_CallbackMatchesStartedFlow ==
    \A k \in DOMAIN callbacks :
        (/\ callbacks[k].service[1] = "auth_callback"
         /\ \E i \in issued : /\ i.service[1] = "auth_start"
                              /\ i.state = callbacks[k].state
                              /\ callbacks[k].at <= i.expires_at
         /\ \A j \in 1..(k - 1) : callbacks[j].state # callbacks[k].state)
            => Matched(k)


\* the stored "spotify" rows of a user
SpotifyRows(user_id) == CredentialRowsOf(credential_rows, user_id, "spotify")

\* C21: has_valid_credentials(user) returns false when the user has no
\* stored credential or when the stored expires_at <= now, and returns true
\* when expires_at > now or when no expiry is stored.
C21_ValidityTruthTable ==
    [][\A user_id \in Users :
          is_authenticated(user_id)
              => LET rows == SpotifyRows(user_id) IN
                 /\ (\/ rows = <<>>
                     \/ /\ rows # <<>>
                        /\ rows[1].expires_at # NoneOpt
                        /\ Unwrap(rows[1].expires_at) <= now)
                        => store_result'.result = "Ok(false)"
                 /\ (/\ rows # <<>>
                     /\ \/ rows[1].expires_at = NoneOpt
                        \/ Unwrap(rows[1].expires_at) > now)
                        => store_result'.result = "Ok(true)"]_vars

\* C21, witness: the check was made at the very instant the stored token
\* expires and answered false.
C21_ExpiredAtThisInstant ==
    /\ store_result.op = "has_valid_credentials"
    /\ store_result.result = "Ok(false)"
    /\ SpotifyRows(store_result.user_id) # <<>>
    /\ SpotifyRows(store_result.user_id)[1].expires_at = Some(now)

\* C22: after any sequence of store_credentials, update_credentials and
\* revoke_tokens calls the credential table holds at most one row per
\* (user, service), and storing for an already linked (user, service)
\* replaces the tokens of the existing row.
C22_OneRowPerUserAndService ==
    /\ [](\A user_id \in Users, service \in CredentialServices :
             Len(CredentialRowsOf(credential_rows, user_id, service)) <= 1)
    /\ [][\A user_id \in Users, token \in TokenPairs, expires_at \in Expiries :
             (/\ store_result'.op = "store_credentials"
              /\ store_result'.user_id = user_id
              /\ store_credentials(user_id, "spotify", token.access_token,
                                   token.refresh_token, expires_at))
                 => /\ Len(credential_rows') =
                          IF SpotifyRows(user_id) = <<>>
                          THEN Len(credential_rows) + 1
                          ELSE Len(credential_rows)
                    /\ CredentialRowsOf(credential_rows', user_id, "spotify")
                          = <<CredentialRow(user_id, "spotify",
                                            token.access_token,
                                            token.refresh_token, expires_at)>>
          ]_vars

\* C22, witness: a second store for a linked user has replaced the tokens;
\* the table holds the rows of both users, one each.
C22_StoredTwice ==
    /\ store_result.op = "store_credentials"
    /\ Len(credential_rows) = 2
    /\ \A user_id \in Users :
           /\ Len(SpotifyRows(user_id)) = 1
           /\ SpotifyRows(user_id)[1].access_token = Encrypt(2)

\* a call of one of the three delete functions for (user_id, service)
DeleteCall(user_id, service) ==
    \/ service = "spotify" /\ revoke_tokens(user_id)
    \/ delete_user_credentials(user_id, service)
    \/ delete_service_connection(user_id, service)

\* C23: deleting the credential of a (user, service) is idempotent: a
\* delete when nothing is linked (a second delete) succeeds like the first
\* and leaves no credential row for that (user, service).
C23_DeleteIsIdempotent ==
    [][\A user_id \in Users, service \in CredentialServices :
          DeleteCall(user_id, service)
              => /\ store_result'.result = "Ok"
                 /\ CredentialRowsOf(credential_rows', user_id, service) = <<>>
      ]_vars


\* C24: a journal row left "pending" by a crash or an aborted task is marked
\* "failed" with reason "interrupted" when the scheduler next starts
\* (Watcher::new / start_monitoring): once the scheduler has started, no row
\* of the old process is pending any more.
C24_OrphansReapedOnStart ==
    [][start_monitoring
          => \A i \in DOMAIN sync_operations :
                 sync_operations[i].status = "pending"
                     => /\ sync_operations'[i].status = "failed"
                        /\ sync_operations'[i].error_message = "interrupted"
      ]_vars


\* journal rows the execution p has inserted so far
RowsInsertedBy(p) == {procs[p].outer, procs[p].inner} \ {None}

\* C25: run_now runs exactly one sync execution and one sync execution
\* writes exactly one journal row: a call of sync_watcher_now on an active
\* watcher, once past its insert, has added exactly one row.
C25_RunNowWritesOneRow ==
    \A p \in ProcIds :
        (procs[p].kind = "now"
         /\ procs[p].pc \in {"sp_get", "sp_create", "sp_preview", "sp_update",
                             "sp_last", "sw_update", "sw_last"})
            => Cardinality(RowsInsertedBy(p)) = 1


\* C26: terminal journal rows are immutable: once a row's status is
\* "completed", "completed_with_errors" or "failed", no later operation
\* changes its status, counts, error message or completed_at.
C26_TerminalRowsImmutable ==
    [][\A i \in DOMAIN sync_operations :
          sync_operations[i].status \in TerminalStatuses
              => /\ i \in DOMAIN sync_operations'
                 /\ sync_operations'[i] = sync_operations[i]]_vars

\* C26, witness: two executions of the same kind have each finished a row
\* of the same watcher, the later one after the earlier row was terminal.
C26_LaterRunFinished ==
    \E i, j \in RowIds :
        /\ i < j
        /\ sync_operations[i].watcher_id = sync_operations[j].watcher_id
        /\ sync_operations[i].operation_type = sync_operations[j].operation_type
        /\ sync_operations[i].status \in TerminalStatuses
        /\ sync_operations[j].status \in TerminalStatuses

\* positions of the source playlist's tracks that resolve on the target
\* service of watcher w, and of those that do not
ResolvedTracks(w) ==
    {i \in DOMAIN source_playlist :
        /\ source_playlist[i] = "match"
        /\ watchers[w].target_service \in
               {"youtube_music", "apple_music", "deezer", "tidal", "amazon_music"}}

UnresolvedTracks(w) ==
    {i \in DOMAIN source_playlist : source_playlist[i] # "episode"}
        \ ResolvedTracks(w)

ResolvableIds(items, target_service) ==
    {items[i].id : i \in {j \in DOMAIN items :
        FindTrackOnTargetService(items[j].kind, target_service) = "some"}}

\* C28: when the source playlist contains the same track more than once,
\* only the first occurrence is kept: the track appears at most once in
\* songs_to_add and duplicates do not increase songs_added (the length of
\* songs_to_add).
C28_DuplicatesCountedOnce ==
    preview_call.result = "Ok"
        => /\ \A i, j \in DOMAIN preview_call.songs_to_add :
                  preview_call.songs_to_add[i] = preview_call.songs_to_add[j]
                      => i = j
           /\ Len(preview_call.songs_to_add) <=
                  Cardinality(ResolvableIds(preview_call.items,
                                            preview_call.target_service))


\* call p of Watcher::preview_sync begins or takes a step
PreviewStep(p) ==
    /\ procs'[p] # procs[p]
    /\ \/ procs[p].kind = "preview"
       \/ procs[p].kind = "free" /\ procs'[p].kind = "preview"

RECURSIVE IdsSent(_)
IdsSent(requests) ==
    IF requests = <<>> THEN <<>>
    ELSE Head(requests).ids \o IdsSent(Tail(requests))

\* C30: add_tracks and remove_tracks split their input into upstream
\* requests of at most 100 ids each, and the ids sent over all requests of
\* one successful call are exactly the input ids, in input order, each sent
\* once.
C30_ChunksOfAtMostHundred ==
    /\ \A r \in DOMAIN playlist_requests :
           /\ Len(playlist_requests[r].ids) <= 100
           /\ playlist_requests[r].method = BatchMethod(batch.op)
    /\ batch.result = "Ok" => IdsSent(playlist_requests) = batch.track_ids

\* C30, witness: a call with 201 ids has succeeded with three requests, of
\* 100, 100 and 1 ids.
C30_ThreeRequests ==
    /\ batch.result = "Ok"
    /\ Len(batch.track_ids) = 201
    /\ Len(playlist_requests) = 3
    /\ Len(playlist_requests[1].ids) = 100
    /\ Len(playlist_requests[2].ids) = 100
    /\ Len(playlist_requests[3].ids) = 1


\* the requests before request r that carried the same chunk as r
EarlierAttempts(r) ==
    {q \in 1..(r - 1) : playlist_requests[q].ids = playlist_requests[r].ids}

\* C31: a batch that fails with a rate-limit or upstream 5xx error is
\* retried, up to 3 attempts in total: when a call has returned, every
\* request answered RateLimited or Upstream5xx was either followed by
\* another attempt of the same batch or was that batch's third attempt, so a
\* batch rate limited once and accepted on the second attempt succeeds.
C31_RetriedUpToThreeTimes ==
    batch.pc = "done" =>
        \A r \in DOMAIN playlist_requests :
            playlist_requests[r].answer \in {"RateLimited", "Upstream5xx"} =>
                \/ Cardinality(EarlierAttempts(r)) >= 2
                \/ \E q \in (r + 1)..Len(playlist_requests) :
                       playlist_requests[q].ids = playlist_requests[r].ids


\* C32: create_user never assigns an id that belongs to an existing user:
\* every user that create_user returned and that was not deleted (or
\* rewritten by update) since is still stored under its own id with its own
\* data, and list() returns it.
C32_CreatedUsersKept ==
    \A u \in live_users :
        /\ get(users_tree, u.id) = Some(u)
        /\ u \in list(users_tree)

\* C33: get_by_username(n) returns a user if and only if a stored user
\* currently has username n, and the returned user has that name; a name
\* given up by a rename or a delete resolves to nobody.
C33_UsernameResolves ==
    \A n \in Usernames :
        LET found == get_by_username(users_tree, username_index, n) IN
            /\ found # NoneOpt <=> \E u \in list(users_tree) : u.username = n
            /\ found # NoneOpt => Unwrap(found).username = n


\* how many entries of a sequence satisfy a test
Occurrences(seq, Test(_)) ==
    Cardinality({i \in DOMAIN seq : Test(seq[i])})

\* C34: whenever the source playlist is read successfully, every source
\* item that is a track is accounted for exactly once: it is in to_add or in
\* failed, never both and never neither, so songs_added + songs_failed (the
\* lengths of the two lists) equals the number of track items.
C34_EveryTrackAccountedOnce ==
    preview_call.result = "Ok" =>
        LET IsTrack(item) == item.kind # "episode"
            TrackIds == {c.id : c \in {d \in Catalogue : IsTrack(d)}}
            Ids == {c.id : c \in Catalogue}
        IN  /\ \A id \in Ids :
                   LET Is(x) == x = id
                       IsItem(item) == item.id = id /\ IsTrack(item)
                       added == Occurrences(preview_call.songs_to_add, Is)
                       failed == Occurrences(preview_call.songs_failed, Is)
                   IN  /\ added + failed =
                            Occurrences(preview_call.items, IsItem)
                       /\ added = 0 \/ failed = 0
            /\ Len(preview_call.songs_to_add) + Len(preview_call.songs_failed)
                   = Occurrences(preview_call.items, IsTrack)

\* C34, witness: a playlist of a resolved track, an unresolved track and an
\* episode was previewed: one entry in to_add, one in failed.
C34_MixedPlaylistPreviewed ==
    /\ preview_call.result = "Ok"
    /\ Len(preview_call.items) = 3
    /\ \E i \in 1..3 : preview_call.items[i].kind = "episode"
    /\ Len(preview_call.songs_to_add) = 1
    /\ Len(preview_call.songs_failed) = 1


\* a periodic task has begun a run of sync_watcher for watcher w that
\* found it active, or has left a journal row of such a run
SyncAttempted(w) ==
    \/ \E p \in ProcIds : /\ procs[p].kind = "tick"
                          /\ procs[p].watcher = w
                          /\ procs[p].pc \in SyncPcs \ {"sw_get"}
    \/ \E r \in DOMAIN sync_operations :
           /\ sync_operations[r].watcher_id = w
           /\ sync_operations[r].operation_type = "auto_sync"

\* C35: every watcher whose active flag is true eventually has a sync
\* attempted by a periodic task (unless the flag is cleared first),
\* including a watcher set active through the HTTP start_watcher handler
\* after the scheduler booted.
C35_ActiveWatcherEventuallySynced ==
    \A w \in WatcherIds :
        watchers[w].is_active ~>
            (SyncAttempted(w) \/ ~watchers[w].is_active)


\* the calls of get_playlist_tracks that began after the mutation returned
\* and that returned a list
LaterFetches ==
    {f \in FetchIds : fetches[f].after /\ fetches[f].result = "Ok"}

\* C36: once add_tracks_to_playlist or remove_tracks_from_playlist has
\* completed successfully, no later get_playlist_tracks call returns a track
\* list that was fetched before that mutation, even if a fetch for the same
\* key was in flight while the mutation ran.
C36_NoStaleListAfterMutation ==
    batch.result = "Ok" =>
        \A f \in LaterFetches : fetches[f].tracks = upstream_playlist

\* C37: if add_tracks_to_playlist or remove_tracks_from_playlist returns an
\* error after at least one of its batches was applied upstream, the next
\* get_playlist_tracks does not serve the pre-mutation list from the cache.
C37_FailedMutationInvalidatesCache ==
    (batch.result = "ApiError" /\ batch.sent > 0) =>
        \A f \in LaterFetches :
            fetches[f].from_cache => fetches[f].tracks # 0


\* C38: a successful refresh_tokens never leaves the credential without a
\* refresh token: when the write of a refresh finds a stored refresh token,
\* the row afterwards holds the refresh token of the response if it carries
\* one and the previous one otherwise.
C38_RefreshKeepsRefreshToken ==
    [][\A c \in CallerIds :
          (/\ UpdateCredentials(c)
           /\ user_credentials.present
           /\ user_credentials.refresh_token # NoneOpt)
          => user_credentials'.refresh_token =
                IF callers[c].resp.refresh_token # NoneOpt
                THEN callers[c].resp.refresh_token
                ELSE user_credentials.refresh_token]_vars


\* C39: disconnecting is durable against an in-flight refresh: revoke_tokens
\* leaves no credential row, and where there is no row only the completion
\* of a new OAuth flow creates one; the write of a refresh_tokens call that
\* read the credential before the revoke does not.
C39_DisconnectIsDurable ==
    [][/\ auth_disconnect => ~user_credentials'.present
       /\ (~user_credentials.present /\ user_credentials'.present)
              => auth_reconnect]_vars

\* C39, witness: a refresh read the credential and exchanged its refresh
\* token, the account was disconnected, and the refresh is at its write.
C39_RefreshWritesAfterRevoke ==
    /\ store_result.op = "revoke_tokens"
    /\ ~user_credentials.present
    /\ \E c \in RevokeCallers : /\ callers[c].pc = "update"
                             /\ callers[c].exchanged

====
